---- MODULE Spec2Model ----
(***************************************************************************)
(* Risk and position-lifecycle engine of the SolSniper bot.                *)
(*                                                                         *)
(* Amounts of SOL are integers in units of 0.0001 SOL (0.6 SOL = 6000),    *)
(* percentages are integers, times are milliseconds as in Date.now().      *)
(* Prices are integers in percent of the price a position was filled at    *)
(* (entryPriceSol = 100), so that pnlPercent is exact.  Any other division *)
(* of the source is an integer division rounding down.                     *)
(***************************************************************************)
EXTENDS Integers, Sequences, FiniteSets, TLC

VARIABLES
    \* BotState (types: BotState; index.ts:23-39)
    totalCapitalSol, availableCapitalSol, openPositions,
    dailyPnlSol, dailyTradeCount, dailyWinCount, dailyLossCount,
    isPaused, pauseUntil,
    \* the Position objects ever created, by id (they outlive the open set)
    pos,
    \* Date.now()
    now,
    \* number of notifyRiskAlert calls made so far
    riskAlerts,
    \* the last call of a risk-manager function: its inputs and its result
    probe,
    \* deadVolumeTimers of the monitor: position id -> time the price was lost
    deadVolumeTimers,
    \* the fastCheckParallel and checkAllPositions invocations, by tick number
    fast, slow,
    \* the processToken / executeDirectBuy invocation of the queue processor
    buy,
    \* executeSell calls made, by position id
    sellLog,
    \* saveTrade calls made, by position id
    savedTrades,
    \* CONFIG.mode.paperTrading, and the SOL the wallet holds (getSOLBalance)
    paperTrading, wallet,
    \* the dip buyer: the keys of its watchlist Map in insertion order, the
    \* WatchedToken objects by mint (a tick keeps the object it holds after
    \* the key is deleted), and the checkWatchlist invocations
    watchlist, watched, dip,
    \* the addToWatchlist invocation of the queue processor
    add,
    \* the calls of the buy callback made by the dip buyer
    signalLog,
    \* index.ts:41-42 and state.seenTokens (in insertion order); the
    \* invocations of the callback of the queue processor, and the tokens
    \* they took from the queue
    tokenQueue, isProcessing, seenTokens, proc, taken,
    \* the setInterval timers that are scheduled, and whether the process
    \* is alive
    intervals, running

ledgerVars == <<totalCapitalSol, availableCapitalSol, openPositions,
                dailyPnlSol, dailyTradeCount, dailyWinCount, dailyLossCount,
                isPaused, pauseUntil>>

engineVars == <<wallet, deadVolumeTimers, fast, slow, buy, sellLog, savedTrades>>

watchVars == <<watchlist, watched, dip, add, signalLog>>

runVars == <<tokenQueue, isProcessing, seenTokens, proc, taken, intervals, running>>

vars == <<ledgerVars, pos, now, riskAlerts, probe, paperTrading, engineVars,
          watchVars, runVars>>

----------------------------------------------------------------------------
(* CONFIG (config.ts) *)

initialCapital == 6000
reserveAmount == 600
maxOpenPositions == 18
positionSizeLow == 25       \* per mille of the deployable capital
positionSizeMedium == 40
positionSizeHigh == 60
maxDailyLoss == 30          \* percent of initialCapital
pauseDuration == 1200000
scoreIgnore == 30
scoreWatch == 40
scoreBuyLow == 50
scoreBuyMid == 60

(* literals of risk/manager.ts *)
minDeployable == 50         \* deployable < 0.005
sizeHighScore == 60         \* analysis.score >= 60
sizeMediumScore == 50       \* analysis.score >= 50
minPositionSize == 30       \* Math.max(0.003, positionSize)
maxSizePercent == 15        \* deployable * 0.15
highPriorityScore == 55     \* analysis.score >= 55

null == <<>>
Some(x) == <<x>>

Abs(x) == IF x < 0 THEN 0 - x ELSE x
Max(a, b) == IF a >= b THEN a ELSE b
Min(a, b) == IF a <= b THEN a ELSE b

----------------------------------------------------------------------------
(* The ledger as the record the risk manager reads *)

State ==
    [ totalCapitalSol |-> totalCapitalSol,
      availableCapitalSol |-> availableCapitalSol,
      openPositions |-> openPositions,
      dailyPnlSol |-> dailyPnlSol,
      dailyTradeCount |-> dailyTradeCount,
      dailyWinCount |-> dailyWinCount,
      dailyLossCount |-> dailyLossCount,
      isPaused |-> isPaused,
      pauseUntil |-> pauseUntil ]

(* scorer.ts analyzeToken: the confidence tier of a score *)
confidenceOf(score) ==
    IF score <= scoreIgnore THEN "ignore"
    ELSE IF score <= scoreWatch THEN "watch"
    ELSE IF score <= scoreBuyLow THEN "low"
    ELSE IF score <= scoreBuyMid THEN "medium"
    ELSE "high"

(* a deployable capital that keeps no reserve *)
getDeployableCapitalNoReserve(state) == Max(0, state.availableCapitalSol)

getDeployableCapital(state) ==
    Max(0, state.availableCapitalSol - reserveAmount)

(* a cap on the open positions that is never reached *)
atMaxPositionsNever(state) == FALSE

(* canOpenPosition: openPositions.length >= CONFIG.risk.maxOpenPositions *)
atMaxPositions(state) == Len(state.openPositions) >= maxOpenPositions

PauseRunningInverted(state, t) ==
    /\ state.pauseUntil # null
    /\ state.pauseUntil[1] # 0
    /\ t > state.pauseUntil[1]

(* `state.pauseUntil && Date.now() < state.pauseUntil` *)
PauseRunning(state, t) ==
    /\ state.pauseUntil # null
    /\ state.pauseUntil[1] # 0
    /\ t < state.pauseUntil[1]

DailyLossReachedStrict(state) ==
    /\ state.dailyPnlSol < 0
    /\ Abs(state.dailyPnlSol) * 100 > maxDailyLoss * initialCapital

(* dailyPnlSol < 0 && |dailyPnlSol| / initialCapital >= maxDailyLoss *)
DailyLossReached(state) ==
    /\ state.dailyPnlSol < 0
    /\ Abs(state.dailyPnlSol) * 100 >= maxDailyLoss * initialCapital

pauseUntilKept(state) == state.pauseUntil

(* "Fin de pause": pauseUntil after `isPaused = false; pauseUntil = null`,
   which runs only when the ledger was paused *)
pauseUntilCleared(state) ==
    IF state.isPaused THEN null ELSE state.pauseUntil

(* canOpenPosition: the result, and the pause fields and the number of
   risk alerts it leaves behind *)
canOpenPosition(state, t) ==
    IF state.isPaused /\ PauseRunning(state, t)
    THEN [ allowed |-> FALSE, isPaused |-> state.isPaused,
           pauseUntil |-> state.pauseUntil, alerts |-> 0 ]
    ELSE LET cleared == pauseUntilCleared(state)
         IN IF atMaxPositions(state)
            THEN [ allowed |-> FALSE, isPaused |-> FALSE,
                   pauseUntil |-> cleared, alerts |-> 0 ]
            ELSE IF DailyLossReached(state)
            THEN [ allowed |-> FALSE, isPaused |-> TRUE,
                   pauseUntil |-> Some(t + pauseDuration), alerts |-> 1 ]
            ELSE IF getDeployableCapital(state) < minDeployable
            THEN [ allowed |-> FALSE, isPaused |-> FALSE,
                   pauseUntil |-> cleared, alerts |-> 0 ]
            ELSE [ allowed |-> TRUE, isPaused |-> FALSE,
                   pauseUntil |-> cleared, alerts |-> 0 ]

(* the per-mille size of calculatePositionSize's score tiers *)
sizePercent(score) ==
    IF score >= sizeHighScore THEN positionSizeHigh
    ELSE IF score >= sizeMediumScore THEN positionSizeMedium
    ELSE positionSizeLow

(* positionSize *= Math.max(0.5, 1 - |dailyPnlSol| / initialCapital) *)
lossReduced(size, state) ==
    IF state.dailyPnlSol < 0
    THEN (size * Max(initialCapital \div 2,
                     initialCapital - Abs(state.dailyPnlSol))) \div initialCapital
    ELSE size

(* positionSize *= 1.1 when winning: dailyWinCount > 2, winRate > 0.6 *)
winBoosted(size, state) ==
    IF /\ state.dailyPnlSol > 0
       /\ state.dailyWinCount > 2
       /\ state.dailyWinCount * 10 > 6 * Max(1, state.dailyTradeCount)
    THEN (size * 11) \div 10
    ELSE size

(* Floor et cap: Math.max(0.003, .) then Math.min(deployable * 0.15, .) *)
floorAndCap(size, deployable) ==
    Min((deployable * maxSizePercent) \div 100, Max(minPositionSize, size))

calculatePositionSize(analysis, state) ==
    LET deployable == getDeployableCapital(state)
        base == (deployable * sizePercent(analysis.score)) \div 1000
    IN floorAndCap(winBoosted(lossReduced(base, state), state), deployable)

(* a check that finds no open position of the mint *)
alreadyOwnedNever(analysis, state, positions) == FALSE

alreadyOwned(analysis, state, positions) ==
    \E i \in 1..Len(state.openPositions) :
        positions[state.openPositions[i]].mintAddress = analysis.mintAddress

(* a priority that is high above the threshold only *)
orderPriorityAbove(score) ==
    IF score > highPriorityScore THEN "high" ELSE "normal"

(* shouldBuy: priority: analysis.score >= 55 ? 'high' : 'normal' *)
orderPriority(score) ==
    IF score >= highPriorityScore THEN "high" ELSE "normal"

(* a shouldBuy that turns away the 'ignore' tier only *)
belowBuyTierIgnoreOnly(confidence) == confidence = "ignore"

(* shouldBuy: analysis.confidence === 'ignore' || === 'watch' *)
belowBuyTier(confidence) == confidence \in {"ignore", "watch"}

(* shouldBuy: the order (or null) and what canOpenPosition left behind *)
shouldBuy(analysis, state, positions, t) ==
    IF belowBuyTier(analysis.confidence)
    THEN [ order |-> null, isPaused |-> state.isPaused,
           pauseUntil |-> state.pauseUntil, alerts |-> 0 ]
    ELSE LET check == canOpenPosition(state, t)
             after == [state EXCEPT !.isPaused = check.isPaused,
                                    !.pauseUntil = check.pauseUntil]
             order == [ mintAddress |-> analysis.mintAddress,
                        amountSol |-> calculatePositionSize(analysis, after),
                        priority |-> orderPriority(analysis.score) ]
         IN [ order |-> IF check.allowed /\ ~alreadyOwned(analysis, after, positions)
                        THEN Some(order) ELSE null,
              isPaused |-> check.isPaused,
              pauseUntil |-> check.pauseUntil,
              alerts |-> check.alerts ]

----------------------------------------------------------------------------
(* index.ts executeDirectBuy: the Position registered for a filled order *)
newPosition(mint, priceSol, amountSol, tokens, t, runner) ==
    [ mintAddress |-> mint,
      entryPriceSol |-> priceSol,
      entryAmountSol |-> amountSol,
      tokenAmount |-> tokens,
      entryTime |-> t,
      currentPriceSol |-> priceSol,
      highestPriceSol |-> priceSol,
      pnlPercent |-> 0,
      remainingPercent |-> 100,
      takeProfitStage |-> 0,
      isRunner |-> runner,
      status |-> "open",
      closeReason |-> "none" ]

(* a reset that leaves the expiry of the pause in the ledger *)
resetDailyCountersKeepsExpiry ==
    /\ dailyPnlSol' = 0
    /\ dailyTradeCount' = 0
    /\ dailyWinCount' = 0
    /\ dailyLossCount' = 0
    /\ isPaused' = FALSE
    /\ UNCHANGED <<totalCapitalSol, availableCapitalSol, openPositions,
                   pauseUntil>>

(* index.ts resetDailyCounters *)
resetDailyCounters ==
    /\ dailyPnlSol' = 0
    /\ dailyTradeCount' = 0
    /\ dailyWinCount' = 0
    /\ dailyLossCount' = 0
    /\ isPaused' = FALSE
    /\ pauseUntil' = null
    /\ UNCHANGED <<totalCapitalSol, availableCapitalSol, openPositions>>

(* the clock moves to a later instant of T *)
AdvanceTime(T) ==
    \E t \in T : t > now /\ now' = t

NoProbe ==
    [ op |-> "none", at |-> 0, score |-> 0, confidence |-> "ignore",
      before |-> State, gateCalled |-> FALSE, allowed |-> FALSE,
      isPaused |-> FALSE, pauseUntil |-> null, alerts |-> 0, order |-> null,
      mint |-> 0 ]

----------------------------------------------------------------------------
(* CONFIG.monitor and CONFIG.runner (config.ts), percentages as integers *)

deadVolumeGrace == 15000
deadVolumeTimeout == 180000
deadVolumeExtension == 120000
deadVolumeStopLoss == -10
deadVolumeMax == 420000
maxTrailingLoss == -20
maxPositionAge == 5400000
runnerMaxDuration == 21600000

scalpSecureProfits ==
    << [triggerPercent |-> 20, sellPercent |-> 30],
       [triggerPercent |-> 40, sellPercent |-> 30] >>

runnerSecureProfits ==
    << [triggerPercent |-> 50, sellPercent |-> 15],
       [triggerPercent |-> 150, sellPercent |-> 15],
       [triggerPercent |-> 300, sellPercent |-> 10] >>

scalpTrailingLevels ==
    << [abovePercent |-> 0, trailPercent |-> 10],
       [abovePercent |-> 15, trailPercent |-> 8],
       [abovePercent |-> 30, trailPercent |-> 7],
       [abovePercent |-> 50, trailPercent |-> 6] >>

runnerTrailingLevels ==
    << [abovePercent |-> 0, trailPercent |-> 20],
       [abovePercent |-> 30, trailPercent |-> 18],
       [abovePercent |-> 80, trailPercent |-> 15],
       [abovePercent |-> 150, trailPercent |-> 12],
       [abovePercent |-> 300, trailPercent |-> 10] >>

(* for (i = lvls.length - 1; i >= 0; i--) if (pnl >= lvls[i].abovePercent)
   return lvls[i].trailPercent; return lvls[0].trailPercent *)
RECURSIVE trailFrom(_, _, _)
trailFrom(lvls, i, pnl) ==
    IF i < 1 THEN lvls[1].trailPercent
    ELSE IF pnl >= lvls[i].abovePercent THEN lvls[i].trailPercent
    ELSE trailFrom(lvls, i - 1, pnl)

getScalpTrail(pnl) == trailFrom(scalpTrailingLevels, Len(scalpTrailingLevels), pnl)

(* a runner trailed with the band of a scalp *)
getRunnerTrailOfScalp(pnl) ==
    trailFrom(scalpTrailingLevels, Len(scalpTrailingLevels), pnl)

getRunnerTrail(pnl) == trailFrom(runnerTrailingLevels, Len(runnerTrailingLevels), pnl)

(* ((price - entryPriceSol) / entryPriceSol) * 100 *)
pnlPercentOf(price, entry) == ((price - entry) * 100) \div entry

(* a Map without key k, and with key k set *)
mapDelete(m, k) == [x \in DOMAIN m \ {k} |-> m[x]]
mapSet(m, k, v) == [x \in DOMAIN m \cup {k} |-> IF x = k THEN v ELSE m[x]]

(* the price update of a position (positions.ts fastCheckParallel 117-119,
   checkPosition 174-177) *)
withPrice(p, price) ==
    [p EXCEPT !.currentPriceSol = price,
              !.pnlPercent = pnlPercentOf(price, p.entryPriceSol),
              !.highestPriceSol = Max(price, p.highestPriceSol)]

highestPnlOf(p) == pnlPercentOf(p.highestPriceSol, p.entryPriceSol)

(* the dead-volume rules without the extension for a small loss *)
deadVolumeCloseNoExtension(p, deadDuration) ==
    \/ p.pnlPercent > 0 /\ deadDuration > deadVolumeGrace
    \/ p.pnlPercent < 0 /\ deadDuration > deadVolumeTimeout
    \/ deadDuration > deadVolumeMax

(* the dead-volume rules without the safety net of 7 minutes *)
deadVolumeCloseNoMax(p, deadDuration) ==
    \/ p.pnlPercent > 0 /\ deadDuration > deadVolumeGrace
    \/ p.pnlPercent <= deadVolumeStopLoss /\ deadDuration > deadVolumeTimeout
    \/ /\ p.pnlPercent < 0
       /\ p.pnlPercent > deadVolumeStopLoss
       /\ deadDuration > deadVolumeTimeout + deadVolumeExtension

(* fastCheckParallel, one result with no price: the dead-volume rules.
   `at` is the `now` the tick took before it fetched. *)
deadVolumeClose(p, deadDuration) ==
    \/ p.pnlPercent > 0 /\ deadDuration > deadVolumeGrace
    \/ p.pnlPercent <= deadVolumeStopLoss /\ deadDuration > deadVolumeTimeout
    \/ /\ p.pnlPercent < 0
       /\ p.pnlPercent > deadVolumeStopLoss
       /\ deadDuration > deadVolumeTimeout + deadVolumeExtension
    \/ deadDuration > deadVolumeMax

(* the stop rules without the quick-cut *)
fastStopReasonNoQuickCut(q, age) ==
    IF age < 60000 /\ q.pnlPercent <= -7 /\ ~q.isRunner THEN "stop_loss"
    ELSE IF q.pnlPercent <= -12 /\ ~q.isRunner THEN "stop_loss"
    ELSE IF q.pnlPercent <= maxTrailingLoss /\ ~q.isRunner THEN "trailing_stop"
    ELSE IF q.isRunner /\ q.pnlPercent <= 2 /\ highestPnlOf(q) >= 15
         THEN "trailing_stop"
    ELSE "none"

(* fastCheckParallel, one result with a price: the stop rules in order *)
fastStopReason(q, age) ==
    IF age < 30000 /\ q.pnlPercent <= -4 /\ ~q.isRunner THEN "stop_loss"
    ELSE IF age < 60000 /\ q.pnlPercent <= -7 /\ ~q.isRunner THEN "stop_loss"
    ELSE IF q.pnlPercent <= -12 /\ ~q.isRunner THEN "stop_loss"
    ELSE IF q.pnlPercent <= maxTrailingLoss /\ ~q.isRunner THEN "trailing_stop"
    ELSE IF q.isRunner /\ q.pnlPercent <= 2 /\ highestPnlOf(q) >= 15
         THEN "trailing_stop"
    ELSE "none"

(* a price that leaves the dead timer running *)
deadTimerKept(timers, id) == timers

(* fastCheckParallel: if (deadVolumeTimers.has(p.id))
   deadVolumeTimers.delete(p.id) *)
deadTimerReset(timers, id) == mapDelete(timers, id)

(* fastCheckParallel, the body of the loop for one result: the position and
   the timers after it, and the reason of the close it starts ("none": no
   close) *)
fastDecide(p, id, price, at, timers) ==
    IF price = 0
    THEN LET started == IF id \in DOMAIN timers THEN timers
                        ELSE mapSet(timers, id, at)
             close == deadVolumeClose(p, at - started[id])
         IN [ p |-> p,
              timers |-> IF close THEN mapDelete(started, id) ELSE started,
              close |-> IF close THEN "dead_volume" ELSE "none" ]
    ELSE LET q == withPrice(p, price)
         IN [ p |-> q,
              timers |-> deadTimerReset(timers, id),
              close |-> fastStopReason(q, at - p.entryTime) ]

(* fastCheckParallel, the loop over the results from result k on, up to the
   first closePosition it awaits (close # "none") or to its end *)
RECURSIVE fastLoop(_, _, _, _, _, _)
fastLoop(k, open, prices, at, P, timers) ==
    IF k > Len(open)
    THEN [ k |-> k, pos |-> P, timers |-> timers, close |-> "none" ]
    ELSE IF P[open[k]].status = "closed"
    THEN fastLoop(k + 1, open, prices, at, P, timers)
    ELSE LET d == fastDecide(P[open[k]], open[k], prices[k], at, timers)
             P1 == [P EXCEPT ![open[k]] = d.p]
         IN IF d.close # "none"
            THEN [ k |-> k, pos |-> P1, timers |-> d.timers, close |-> d.close ]
            ELSE fastLoop(k + 1, open, prices, at, P1, d.timers)

(* the steps of handleScalp / handleRunner: what the handler awaits next *)
StepClose(reason) == [pc |-> "closeSell", i |-> 0, reason |-> reason]
StepNotifyTrail == [pc |-> "notifyTrail", i |-> 0, reason |-> "trailing_stop"]
StepPartial(i) == [pc |-> "partialSell", i |-> i, reason |-> "take_profit"]
StepReturn == [pc |-> "return", i |-> 0, reason |-> "none"]

(* the timeout rule that ends handleScalp / handleRunner *)
slowTimeout(p, runner, t) ==
    IF runner
    THEN IF t - p.entryTime > runnerMaxDuration /\ p.pnlPercent <= 5
         THEN StepClose("timeout") ELSE StepReturn
    ELSE IF t - p.entryTime > maxPositionAge /\ p.pnlPercent <= 3
         THEN StepClose("timeout") ELSE StepReturn

secureProfitsOf(runner) ==
    IF runner THEN runnerSecureProfits ELSE scalpSecureProfits

(* the take-profit loop from index i (0-based as in the source) on *)
RECURSIVE slowLadder(_, _, _, _)
slowLadder(p, runner, i, t) ==
    IF i >= Len(secureProfitsOf(runner)) THEN slowTimeout(p, runner, t)
    ELSE IF p.pnlPercent >= secureProfitsOf(runner)[i + 1].triggerPercent
    THEN StepPartial(i)
    ELSE slowLadder(p, runner, i + 1, t)

trailHit(p, trail) ==
    p.currentPriceSol * 100 <= p.highestPriceSol * (100 - trail)

(* handleScalp / handleRunner from their first line *)
slowHandle(p, runner, highestPnl, t) ==
    IF runner
    THEN IF highestPnl > 10 /\ trailHit(p, getRunnerTrail(highestPnl))
         THEN IF p.pnlPercent > 0 THEN StepNotifyTrail
              ELSE StepClose("trailing_stop")
         ELSE slowLadder(p, runner, p.takeProfitStage, t)
    ELSE IF highestPnl >= 12 /\ p.pnlPercent <= 1
         THEN StepClose("trailing_stop")
         ELSE IF highestPnl > 8 /\ trailHit(p, getScalpTrail(highestPnl))
         THEN IF p.pnlPercent > 0 THEN StepNotifyTrail
              ELSE StepClose("trailing_stop")
         ELSE slowLadder(p, runner, p.takeProfitStage, t)

(* partialSell: Math.min(100, (pct / p.remainingPercent) * 100), in
   hundredths of a percent; pct / 0 is Infinity *)
effectivePercent(pct, remaining) ==
    IF remaining = 0 THEN 10000
    ELSE IF remaining > 0 THEN Min(10000, (pct * 10000) \div remaining)
    ELSE 0 - ((pct * 10000) \div (0 - remaining))

(* executeSell: the tokens it offers, tokenAmount * (percentToSell / 100) *)
tokensToSell(p, bp) ==
    IF bp >= 0 THEN (p.tokenAmount * bp) \div 10000
    ELSE 0 - ((p.tokenAmount * (0 - bp)) \div 10000)

(* simulateSell: exitSlippage is 2-5%, and a sell at a P&L under -14% is
   priced at a P&L of -14% to -16% *)
maxRealisticLoss == -14
PaperSlippages == {2}
PaperCaps == {-14}

simulateSell(p, bp) ==
    LET currentPnl == pnlPercentOf(p.currentPriceSol, p.entryPriceSol)
        sellPrices == IF currentPnl < maxRealisticLoss
                      THEN {(p.entryPriceSol * (100 + c)) \div 100 : c \in PaperCaps}
                      ELSE {p.currentPriceSol}
    IN { [success |-> TRUE,
          solReceived |->
              Max(0, (tokensToSell(p, bp) * sellPrice * (100 - slip)) \div 10000)]
         : sellPrice \in sellPrices, slip \in PaperSlippages }

(* executeSell in live trading: no success (no route, no transaction, an
   error), or the SOL of the quote, here a share (SellFactors, in percent)
   of the capital committed to the slice sold *)
SellFactors == {50, 150}

liveSell(p, bp) ==
    {[success |-> FALSE, solReceived |-> 0]} \cup
    { [success |-> TRUE,
       solReceived |-> Max(0, (((p.entryAmountSol * bp) \div 10000) * f) \div 100)]
      : f \in SellFactors }

(* executeSell of bp hundredths of a percent of position p: its results *)
sellOutcomes(p, bp) ==
    IF paperTrading THEN simulateSell(p, bp) ELSE liveSell(p, bp)

----------------------------------------------------------------------------
(* The engine: the buy pipeline, the two monitor loops, the clock, the     *)
(* daily reset and the capital sync, interleaved at the awaits of the      *)
(* source.  An action is the code a callback runs from one await to the    *)
(* next.  Prices are in percent of the price a position was filled at.     *)

MaxFastTicks == 1
MaxSlowTicks == 1
MaxBuys == 1

LiveBalances == {70000}
EngineInstants == {0, 450000}
\* fetchCurrentPrice: 0 stands for null and for a price of 0
EnginePrices == {0, 85, 125, 150}
EntryPrices == {100}
ScanPrices == {100}
QueueScores == {65}
DipScores == {40}
EngineMints == {1, 2}
Sources == {"queue", "dip"}

\* fetched: the pricePromises of the tick, null while one is pending
FastIdle ==
    [ pc |-> "idle", at |-> 0, open |-> <<>>, prices |-> <<>>, k |-> 0,
      reason |-> "none", sellBp |-> 0, result |-> null, fetched |-> <<>> ]

\* query: the answer of the last checkIfRunner of the invocation
SlowIdle ==
    [ pc |-> "idle", list |-> <<>>, n |-> 0, highestPnl |-> 0,
      runner |-> FALSE, i |-> 0, reason |-> "none", sellBp |-> 0,
      result |-> null, query |-> null ]

NoAnalysis ==
    [mintAddress |-> 0, score |-> 0, confidence |-> "ignore", priceSol |-> 0]

BuyIdle ==
    [ pc |-> "idle", n |-> 0, analysis |-> NoAnalysis, order |-> null,
      pausedAtGate |-> FALSE, preBuyPrice |-> 0 ]

\* fired: how often partialSell was called for each trigger of the two
\* ladders, the triggers of the scalp first
NoSells ==
    [ closes |-> 0, partials |-> 0, tokens |-> 0,
      fired |-> [k \in 1..(Len(scalpSecureProfits) + Len(runnerSecureProfits))
                   |-> 0] ]

(* CONFIG.dipBuyer (config.ts) *)
maxWatchDuration == 600000
minDipPercent == 5
maxDipPercent == 35
reboundConfirmPercent == 2
maxWatchlistSize == 20

DipTicks == 2

DipIdle == [pc |-> "idle", mint |-> 0]

AddIdle ==
    [ pc |-> "idle", calls |-> 0, mint |-> 0, admitted |-> FALSE,
      before |-> <<>> ]

(* the dip buyer after startDipBuyer, with the watchlist wl of objects W *)
WatchStarted(wl, W) ==
    /\ watchlist = wl
    /\ watched = W
    /\ dip = [d \in 1..DipTicks |-> DipIdle]
    /\ add = AddIdle
    /\ signalLog = <<>>

WatchIdle == WatchStarted(<<>>, <<>>)

(* index.ts main: the periodic timers it starts (startMonitor, startDipBuyer,
   startQueueProcessor, startPeriodicSummary, startDailyReset,
   startDexScreenerPolling) *)
AllTimers ==
    {"fast", "slow", "watchlist", "queue", "summary", "dailyReset", "discovery"}

QueueTicks == 2

NoToken == [mintAddress |-> 0, seq |-> 0]

ProcIdle == [pc |-> "idle", token |-> NoToken, analysis |-> NoAnalysis]

(* the process with every timer scheduled and the queue empty, after it
   has seen the mints of seen and processed the tokens of log *)
MainRunning(seen, log) ==
    /\ tokenQueue = <<>>
    /\ isProcessing = FALSE
    /\ seenTokens = seen
    /\ proc = [k \in 1..QueueTicks |-> ProcIdle]
    /\ taken = log
    /\ intervals = AllTimers
    /\ running = TRUE

MainStarted == MainRunning(<<>>, <<>>)

EngineFresh ==
    /\ wallet = totalCapitalSol
    /\ deadVolumeTimers = <<>>
    /\ fast = [f \in 1..MaxFastTicks |-> FastIdle]
    /\ slow = [t \in 1..MaxSlowTicks |-> SlowIdle]
    /\ buy = [src \in Sources |-> BuyIdle]
    /\ sellLog = [id \in DOMAIN pos |-> NoSells]
    /\ savedTrades = [id \in DOMAIN pos |-> 0]

EngineIdle == MainStarted /\ EngineFresh

(* index.ts main: the ledger after start-up; the balance is initialCapital
   in paper trading and the balance of the wallet otherwise *)
FreshLedger ==
    /\ paperTrading \in BOOLEAN
    /\ totalCapitalSol \in (IF paperTrading THEN {initialCapital}
                            ELSE LiveBalances)
    /\ availableCapitalSol = totalCapitalSol
    /\ openPositions = <<>>
    /\ pos = <<>>
    /\ dailyPnlSol = 0
    /\ dailyTradeCount = 0
    /\ dailyWinCount = 0
    /\ dailyLossCount = 0
    /\ isPaused = FALSE
    /\ pauseUntil = null
    /\ now = 0
    /\ riskAlerts = 0
    /\ probe = NoProbe

Init == FreshLedger /\ EngineIdle /\ WatchIdle

stillOpen(P, ids) == SelectSeq(ids, LAMBDA id : P[id].status # "closed")

(* simulateSell returns without waiting for anything: in paper trading the
   caller of executeSell resumes before any other callback runs *)
SellInFlight ==
    \/ \E f \in DOMAIN fast : fast[f].pc = "closeSell"
    \/ \E s \in DOMAIN slow : slow[s].pc \in {"closeSell", "partialSell"}

(* the process is alive, and no simulateSell is under way *)
Runnable == running /\ (paperTrading => ~SellInFlight)

(* executeSell called by closePosition (full) or partialSell for bp
   hundredths of a percent of position id *)
sellIssued(log, P, id, bp, full) ==
    [log EXCEPT ![id] =
        [ closes |-> @.closes + (IF full THEN 1 ELSE 0),
          partials |-> @.partials + (IF full THEN 0 ELSE 1),
          tokens |-> @.tokens + tokensToSell(P[id], bp),
          fired |-> @.fired ]]

(* partialSell called for trigger i (0-based) of the ladder of the mode *)
ladderIndex(runner, i) ==
    IF runner THEN Len(scalpSecureProfits) + i + 1 ELSE i + 1

triggerFired(log, id, runner, i) ==
    [log EXCEPT ![id].fired[ladderIndex(runner, i)] = @ + 1]

(* a close that counts as a loss whatever it brought *)
lossCountedAlways(pnlSol) == 1

(* closePosition: if (pnlSol > 0) state.dailyWinCount++; else
   state.dailyLossCount++ *)
winCounted(pnlSol) == IF pnlSol > 0 THEN 1 ELSE 0

lossCounted(pnlSol) == IF pnlSol > 0 THEN 0 ELSE 1

(* closePosition from the return of its executeSell to its notification *)
closePositionDone(id, reason, r) ==
    LET invested == pos[id].entryAmountSol
        returned == r.solReceived
        pnlSol == returned - invested
    IN /\ pos' = [pos EXCEPT ![id].status = "closed",
                             ![id].closeReason = reason,
                             ![id].remainingPercent = 0]
       /\ deadVolumeTimers' = mapDelete(deadVolumeTimers, id)
       /\ savedTrades' = [savedTrades EXCEPT ![id] = @ + 1]
       /\ dailyPnlSol' = dailyPnlSol + pnlSol
       /\ dailyTradeCount' = dailyTradeCount + 1
       /\ dailyWinCount' = dailyWinCount + winCounted(pnlSol)
       /\ dailyLossCount' = dailyLossCount + lossCounted(pnlSol)
       /\ availableCapitalSol' = availableCapitalSol + returned
       /\ wallet' = wallet + returned
       /\ openPositions' = SelectSeq(openPositions, LAMBDA x : x # id)
       /\ UNCHANGED <<totalCapitalSol, isPaused, pauseUntil>>

----------------------------------------------------------------------------
(* fastCheckParallel *)

(* open.map(p => fetchCurrentPrice(...)): one pending promise a position *)
allPending(open) == [j \in 1..Len(open) |-> null]

(* the results of Promise.allSettled for the answers prices *)
allSettled(prices) == [j \in 1..Len(prices) |-> Some(prices[j])]

(* await Promise.allSettled(pricePromises): no promise is pending *)
settled(fetched) == \A j \in 1..Len(fetched) : fetched[j] # null

FastStart(f) ==
    /\ Runnable
    /\ "fast" \in intervals
    /\ fast[f].pc = "idle"
    /\ f > 1 => fast[f - 1].pc # "idle"
    /\ LET open == stillOpen(pos, openPositions)
       IN fast' = [fast EXCEPT ![f] =
                     IF open = <<>> THEN [FastIdle EXCEPT !.pc = "done"]
                     ELSE [FastIdle EXCEPT !.pc = "prices", !.at = now,
                                           !.open = open,
                                           !.fetched = allPending(open)]]
    /\ UNCHANGED <<ledgerVars, pos, now, riskAlerts, probe, paperTrading, watchVars, runVars,
                   wallet, deadVolumeTimers, slow, buy, sellLog, savedTrades>>

(* the loop from result k on, up to the executeSell of its first close *)
FastContinue(f, k, prices) ==
    LET run == fastLoop(k, fast[f].open, prices, fast[f].at, pos,
                        deadVolumeTimers)
    IN /\ pos' = run.pos
       /\ deadVolumeTimers' = run.timers
       /\ IF run.close = "none"
          THEN /\ fast' = [fast EXCEPT ![f] = [FastIdle EXCEPT !.pc = "done"]]
               /\ UNCHANGED sellLog
          ELSE LET id == fast[f].open[run.k]
                   bp == run.pos[id].remainingPercent * 100
               IN /\ fast' = [fast EXCEPT ![f].pc = "closeSell",
                                          ![f].result = null,
                                          ![f].prices = prices,
                                          ![f].fetched = allSettled(prices),
                                          ![f].k = run.k,
                                          ![f].reason = run.close,
                                          ![f].sellBp = bp]
                  /\ sellLog' = sellIssued(sellLog, run.pos, id, bp, TRUE)
       /\ UNCHANGED <<ledgerVars, now, riskAlerts, probe, paperTrading, watchVars, runVars,
                      wallet, slow, buy, savedTrades>>

(* the tick resumes with the answers of fetchCurrentPrice, each one of Q *)
FastPricesFrom(f, Q) ==
    /\ Runnable
    /\ fast[f].pc = "prices"
    /\ \E prices \in [1..Len(fast[f].open) -> Q] :
         FastContinue(f, 1, prices)

FastPrices(f) == FastPricesFrom(f, EnginePrices)

(* the fetchCurrentPrice of result j settles with an answer of Q; a
   timeout or an error is caught and answers null, the 0 of Q *)
FastFetched(f, j, Q) ==
    /\ Runnable
    /\ fast[f].pc = "prices"
    /\ j \in 1..Len(fast[f].open)
    /\ fast[f].fetched[j] = null
    /\ \E q \in Q : fast' = [fast EXCEPT ![f].fetched[j] = Some(q)]
    /\ UNCHANGED <<ledgerVars, pos, now, riskAlerts, probe, paperTrading, watchVars, runVars,
                   wallet, deadVolumeTimers, slow, buy, sellLog, savedTrades>>

(* the tick resumes from await Promise.allSettled *)
FastSettled(f) ==
    /\ Runnable
    /\ fast[f].pc = "prices"
    /\ settled(fast[f].fetched)
    /\ FastContinue(f, 1, [j \in 1..Len(fast[f].open) |->
                              fast[f].fetched[j][1]])

FastSold(f) ==
    /\ running
    /\ fast[f].pc = "closeSell"
    /\ LET id == fast[f].open[fast[f].k]
       IN \E r \in sellOutcomes(pos[id], fast[f].sellBp) :
            /\ closePositionDone(id, fast[f].reason, r)
            /\ fast' = [fast EXCEPT ![f].pc = "notifyClose",
                                    ![f].result = Some(r)]
    /\ UNCHANGED <<now, riskAlerts, probe, paperTrading, watchVars, runVars, slow, buy, sellLog>>

FastNotified(f) ==
    /\ Runnable
    /\ fast[f].pc = "notifyClose"
    /\ FastContinue(f, fast[f].k + 1, fast[f].prices)

----------------------------------------------------------------------------
(* checkAllPositions / checkPosition / handleScalp / handleRunner *)

SlowStart(s) ==
    /\ Runnable
    /\ "slow" \in intervals
    /\ slow[s].pc = "idle"
    /\ s > 1 => slow[s - 1].pc # "idle"
    /\ LET list == stillOpen(pos, openPositions)
       IN slow' = [slow EXCEPT ![s] =
                     IF list = <<>> THEN [SlowIdle EXCEPT !.pc = "done"]
                     ELSE [SlowIdle EXCEPT !.pc = "price", !.list = list,
                                           !.n = 1]]
    /\ UNCHANGED <<ledgerVars, pos, now, riskAlerts, probe, paperTrading, watchVars, runVars,
                   wallet, deadVolumeTimers, fast, buy, sellLog, savedTrades>>

slowPosition(s) == slow[s].list[slow[s].n]

(* the invocation after it took the step: at the await the step names, or
   at the price fetch of the next position of its list, or finished *)
slowAfter(task, step, P) ==
    LET id == task.list[task.n]
    IN CASE step.pc = "closeSell" ->
              [task EXCEPT !.pc = "closeSell", !.reason = step.reason,
                           !.sellBp = P[id].remainingPercent * 100,
                           !.result = null]
         [] step.pc = "notifyTrail" ->
              [task EXCEPT !.pc = "notifyTrail"]
         [] step.pc = "partialSell" ->
              [task EXCEPT !.pc = "partialSell", !.i = step.i,
                           !.result = null,
                           !.sellBp = effectivePercent(
                               secureProfitsOf(task.runner)[step.i + 1].sellPercent,
                               P[id].remainingPercent)]
         [] OTHER ->
              IF task.n < Len(task.list)
              THEN [SlowIdle EXCEPT !.pc = "price", !.list = task.list,
                                    !.n = task.n + 1, !.query = task.query]
              ELSE [SlowIdle EXCEPT !.pc = "done", !.query = task.query]

(* the invocation s takes the step in the positions P *)
SlowGo(s, task, step, P) ==
    LET after == slowAfter(task, step, P)
        id == task.list[task.n]
    IN /\ slow' = [slow EXCEPT ![s] = after]
       /\ sellLog' = IF after.pc = "closeSell"
                     THEN sellIssued(sellLog, P, id, after.sellBp, TRUE)
                     ELSE IF after.pc = "partialSell"
                     THEN triggerFired(
                              sellIssued(sellLog, P, id, after.sellBp, FALSE),
                              id, task.runner, after.i)
                     ELSE sellLog

(* checkIfRunner: the answer a of the DexScreener query: ok is FALSE when
   axios threw, pair when pairs[0] is there; a number that is missing is 0 *)
RunnerAnswer(ok, pair, cap, vol, txns, change) ==
    [ ok |-> ok, pair |-> pair, marketCap |-> cap[1], fdv |-> cap[2],
      volM5 |-> vol[1], volH1 |-> vol[2], buys |-> txns[1], sells |-> txns[2],
      priceChangeM5 |-> change ]

NoAnswer == RunnerAnswer(FALSE, FALSE, <<0, 0>>, <<0, 0>>, <<0, 0>>, 0)

runnerMarketCapCeiling == 200000
runnerBuyRatio == 55
runnerQuorum == 3
runnerPromotionPnl == 15

(* avgVol5m > 0 && vol5m > avgVol5m * 1.5, with avgVol5m = vol1h / 12 *)
volumeAccelerates(a) == a.volH1 > 0 /\ 8 * a.volM5 > a.volH1

(* buyRatio >= 0.55, the ratio being 0 without transactions *)
buyRatioHigh(a) ==
    a.buys + a.sells > 0 /\ 100 * a.buys >= runnerBuyRatio * (a.buys + a.sells)

priceRising(a) == a.priceChangeM5 > 0

(* mc < 200_000 with mc = pair.marketCap || pair.fdv || 0 *)
capUnderCeiling(a) ==
    (IF a.marketCap # 0 THEN a.marketCap ELSE a.fdv) < runnerMarketCapCeiling

runnerSignals(a) ==
    Cardinality({ i \in 1..4 :
                    \/ i = 1 /\ volumeAccelerates(a)
                    \/ i = 2 /\ buyRatioHigh(a)
                    \/ i = 3 /\ priceRising(a)
                    \/ i = 4 /\ capUnderCeiling(a) })

(* a detection that two signals satisfy *)
checkIfRunnerOnTwo(a) == a.ok /\ a.pair /\ runnerSignals(a) >= 2

checkIfRunner(a) == a.ok /\ a.pair /\ runnerSignals(a) >= runnerQuorum

\* a query that fails, and one that all four signals agree on
EngineAnswers ==
    { NoAnswer,
      RunnerAnswer(TRUE, TRUE, <<100000, 0>>, <<20, 80>>, <<60, 40>>, 5) }

(* checkPosition resumes with the price *)
SlowPrice(s) ==
    /\ Runnable
    /\ slow[s].pc = "price"
    /\ \E price \in EnginePrices :
         LET id == slowPosition(s)
             q == withPrice(pos[id], price)
             P == [pos EXCEPT ![id] = q]
             seen == [slow[s] EXCEPT !.highestPnl = highestPnlOf(q),
                                     !.runner = q.isRunner]
         IN IF price = 0
            THEN /\ pos' = pos
                 /\ SlowGo(s, slow[s], StepReturn, pos)
            ELSE /\ pos' = P
                 /\ IF ~q.isRunner /\ q.pnlPercent >= runnerPromotionPnl
                    THEN /\ slow' = [slow EXCEPT ![s] =
                                       [seen EXCEPT !.pc = "runner"]]
                         /\ UNCHANGED sellLog
                    ELSE SlowGo(s, seen,
                                slowHandle(q, q.isRunner, seen.highestPnl, now),
                                P)
    /\ UNCHANGED <<ledgerVars, now, riskAlerts, probe, paperTrading, watchVars, runVars, wallet,
                   deadVolumeTimers, fast, buy, savedTrades>>

(* checkPosition resumes with the answer of checkIfRunner, one of A *)
SlowRunnerFrom(s, A) ==
    /\ Runnable
    /\ slow[s].pc = "runner"
    /\ \E a \in A :
         LET id == slowPosition(s)
             promoted == checkIfRunner(a)
             q == IF promoted THEN [pos[id] EXCEPT !.isRunner = TRUE]
                  ELSE pos[id]
             P == [pos EXCEPT ![id] = q]
             task == [slow[s] EXCEPT !.runner = q.isRunner,
                                     !.query = Some(a)]
         IN /\ pos' = P
            /\ SlowGo(s, task,
                      slowHandle(q, q.isRunner, task.highestPnl, now), P)
    /\ UNCHANGED <<ledgerVars, now, riskAlerts, probe, paperTrading, watchVars, runVars, wallet,
                   deadVolumeTimers, fast, buy, savedTrades>>

SlowRunner(s) == SlowRunnerFrom(s, EngineAnswers)

(* the handler resumes after notifyTrailingStop: closePosition *)
SlowTrailNotified(s) ==
    /\ Runnable
    /\ slow[s].pc = "notifyTrail"
    /\ SlowGo(s, slow[s], StepClose("trailing_stop"), pos)
    /\ UNCHANGED <<ledgerVars, pos, now, riskAlerts, probe, paperTrading, watchVars, runVars,
                   wallet, deadVolumeTimers, fast, buy, savedTrades>>

(* closePosition resumes with the result of its executeSell *)
SlowSold(s) ==
    /\ running
    /\ slow[s].pc = "closeSell"
    /\ \E r \in sellOutcomes(pos[slowPosition(s)], slow[s].sellBp) :
         /\ closePositionDone(slowPosition(s), slow[s].reason, r)
         /\ slow' = [slow EXCEPT ![s].pc = "notifyClose",
                                 ![s].result = Some(r)]
    /\ UNCHANGED <<now, riskAlerts, probe, paperTrading, watchVars, runVars, fast, buy, sellLog>>

(* closePosition returns: every path of the handlers returns after it *)
SlowCloseNotified(s) ==
    /\ Runnable
    /\ slow[s].pc = "notifyClose"
    /\ SlowGo(s, slow[s], StepReturn, pos)
    /\ UNCHANGED <<ledgerVars, pos, now, riskAlerts, probe, paperTrading, watchVars, runVars,
                   wallet, deadVolumeTimers, fast, buy, savedTrades>>

(* partialSell, the position after a successful sell of pct percent *)
partialSold(p, pct) ==
    [p EXCEPT !.remainingPercent = p.remainingPercent - pct,
              !.status = IF p.remainingPercent - pct <= 0 THEN "closed"
                         ELSE "partial"]

(* partialSell has returned: p.takeProfitStage = i + 1 and the loop goes on *)
SlowLadderOn(s, p) ==
    LET id == slowPosition(s)
        q == [p EXCEPT !.takeProfitStage = slow[s].i + 1]
        P == [pos EXCEPT ![id] = q]
    IN /\ pos' = P
       /\ SlowGo(s, slow[s],
                 slowLadder(q, slow[s].runner, slow[s].i + 1, now), P)

(* partialSell resumes with the result of its executeSell *)
SlowPartialSold(s) ==
    /\ running
    /\ slow[s].pc = "partialSell"
    /\ \E r \in sellOutcomes(pos[slowPosition(s)], slow[s].sellBp) :
         LET id == slowPosition(s)
             pct == secureProfitsOf(slow[s].runner)[slow[s].i + 1].sellPercent
             pnl == r.solReceived - (pos[id].entryAmountSol * pct) \div 100
             got == IF r.success THEN r.solReceived ELSE 0
         IN /\ dailyPnlSol' = dailyPnlSol + (IF r.success THEN pnl ELSE 0)
            /\ availableCapitalSol' = availableCapitalSol + got
            /\ wallet' = wallet + got
            /\ IF r.success /\ pnl > 0
               THEN /\ pos' = [pos EXCEPT ![id] = partialSold(pos[id], pct)]
                    /\ slow' = [slow EXCEPT ![s].pc = "notifyPartial",
                                            ![s].result = Some(r)]
                    /\ UNCHANGED sellLog
               ELSE SlowLadderOn(s, IF r.success
                                    THEN partialSold(pos[id], pct)
                                    ELSE pos[id])
    /\ UNCHANGED <<totalCapitalSol, openPositions, dailyTradeCount,
                   dailyWinCount, dailyLossCount, isPaused, pauseUntil, now,
                   riskAlerts, probe, paperTrading, watchVars, runVars, deadVolumeTimers, fast,
                   buy, savedTrades>>

(* partialSell resumes after notifySellProfit and returns *)
SlowPartialNotified(s) ==
    /\ Runnable
    /\ slow[s].pc = "notifyPartial"
    /\ SlowLadderOn(s, pos[slowPosition(s)])
    /\ UNCHANGED <<ledgerVars, now, riskAlerts, probe, paperTrading, watchVars, runVars, wallet,
                   deadVolumeTimers, fast, buy, savedTrades>>

----------------------------------------------------------------------------
(* processToken / onDipBuySignal -> executeDirectBuy.  The queue processor
   runs one processToken at a time (isProcessing); the dip buyer hands over
   the analysis it stored, which processToken gave it for confidence
   'watch' only. *)

scoresOf(src) == IF src = "queue" THEN QueueScores ELSE DipScores

(* the executeDirectBuy invocation after shouldBuy returned r: back at once
   on no order, at its pre-buy price fetch otherwise *)
buyBegun(task, analysis, r) ==
    [ pc |-> IF r.order = null THEN "idle" ELSE "prebuy",
      n |-> task.n + (IF r.order = null THEN 0 ELSE 1),
      analysis |-> IF r.order = null THEN NoAnalysis ELSE analysis,
      order |-> r.order,
      pausedAtGate |-> /\ ~belowBuyTier(analysis.confidence)
                       /\ isPaused
                       /\ PauseRunning(State, now),
      preBuyPrice |-> 0 ]

(* executeDirectBuy(analysis) up to its first await: shouldBuy *)
BuyBegin(src, analysis) ==
    LET r == shouldBuy(analysis, State, pos, now)
    IN /\ r.order # null => buy[src].n < MaxBuys
       /\ isPaused' = r.isPaused
       /\ pauseUntil' = r.pauseUntil
       /\ riskAlerts' = riskAlerts + r.alerts
       /\ buy' = [buy EXCEPT ![src] = buyBegun(buy[src], analysis, r)]

BuyStart(src) ==
    /\ Runnable
    /\ buy[src].pc = "idle"
    /\ \E score \in scoresOf(src), mint \in EngineMints, scan \in ScanPrices :
         BuyBegin(src, [ mintAddress |-> mint, score |-> score,
                         confidence |-> confidenceOf(score),
                         priceSol |-> scan ])
    /\ UNCHANGED <<totalCapitalSol, availableCapitalSol, openPositions,
                   dailyPnlSol, dailyTradeCount, dailyWinCount, dailyLossCount,
                   pos, now, probe, paperTrading, watchVars, runVars, wallet, deadVolumeTimers,
                   fast, slow, sellLog, savedTrades>>

(* a pre-buy check that lets any price through *)
preBuyAbortsOnMissing(analysis, preBuyPrice) == preBuyPrice = 0

(* the pre-buy check: no price, or a drop of more than 8% since detection *)
preBuyAborts(analysis, preBuyPrice) ==
    \/ preBuyPrice = 0
    \/ /\ analysis.priceSol > 0
       /\ pnlPercentOf(preBuyPrice, analysis.priceSol) < -8

BuyPrice(src) ==
    /\ Runnable
    /\ buy[src].pc = "prebuy"
    /\ \E preBuyPrice \in EnginePrices :
         buy' = [buy EXCEPT ![src] =
                   IF preBuyAborts(buy[src].analysis, preBuyPrice)
                   THEN [BuyIdle EXCEPT !.n = buy[src].n]
                   ELSE [buy[src] EXCEPT !.pc = "exec",
                                         !.preBuyPrice = preBuyPrice]]
    /\ UNCHANGED <<ledgerVars, pos, now, riskAlerts, probe, paperTrading, watchVars, runVars,
                   wallet, deadVolumeTimers, fast, slow, sellLog, savedTrades>>

(* executeDirectBuy resumes with the result of executeBuy *)
BuyFilled(src) ==
    /\ Runnable
    /\ buy[src].pc = "exec"
    /\ \E success \in BOOLEAN, isEarlyRunner \in BOOLEAN,
          priceSol \in EntryPrices :
         LET order == buy[src].order[1]
             tokenAmount == (order.amountSol * 100) \div priceSol
         IN IF success /\ tokenAmount > 0
            THEN /\ pos' = Append(pos, newPosition(order.mintAddress, priceSol,
                                      order.amountSol, tokenAmount, now,
                                      isEarlyRunner))
                 /\ openPositions' = Append(openPositions, Len(pos) + 1)
                 /\ availableCapitalSol' = availableCapitalSol - order.amountSol
                 /\ wallet' = wallet - order.amountSol
                 /\ sellLog' = Append(sellLog, NoSells)
                 /\ savedTrades' = Append(savedTrades, 0)
                 /\ buy' = [buy EXCEPT ![src].pc = "notifyBuy",
                                       ![src].preBuyPrice = 0]
            ELSE /\ buy' = [buy EXCEPT ![src] = [BuyIdle EXCEPT !.n = buy[src].n]]
                 /\ UNCHANGED <<pos, openPositions, availableCapitalSol,
                                wallet, sellLog, savedTrades>>
    /\ UNCHANGED <<totalCapitalSol, dailyPnlSol, dailyTradeCount,
                   dailyWinCount, dailyLossCount, isPaused, pauseUntil, now,
                   riskAlerts, probe, paperTrading, watchVars, runVars, deadVolumeTimers, fast,
                   slow>>

(* executeDirectBuy resumes after notifyBuy and returns *)
BuyNotified(src) ==
    /\ Runnable
    /\ buy[src].pc = "notifyBuy"
    /\ buy' = [buy EXCEPT ![src] = [BuyIdle EXCEPT !.n = buy[src].n]]
    /\ UNCHANGED <<ledgerVars, pos, now, riskAlerts, probe, paperTrading, watchVars, runVars,
                   wallet, deadVolumeTimers, fast, slow, sellLog, savedTrades>>

----------------------------------------------------------------------------
(* index.ts onTokenDetected, startQueueProcessor and processToken *)

seenTokensLimit == 10000
seenTokensDropped == 5000

hasSeen(seen, mint) == \E i \in 1..Len(seen) : seen[i] = mint

(* seenTokens.add(mint), and past the limit the deletion of the oldest *)
seenAfter(seen, mint) ==
    LET added == Append(seen, mint)
    IN IF Len(added) > seenTokensLimit
       THEN SubSeq(added, seenTokensDropped + 1, Len(added))
       ELSE added

(* a callback of the interval that finds the flag set *)
queueBusyNoFlag(flag, queue) == queue = <<>>

(* the callback returns at once: isProcessing || tokenQueue.length === 0 *)
queueBusy(flag, queue) == flag \/ queue = <<>>

\* the mints the scanners report: one seen long ago and two new ones
QueueMints == {1, seenTokensLimit + 1, seenTokensLimit + 2}
\* analyzeToken: a score of the tier ignore and one of the tier high
ProcScores == {20, 65}

(* a scanner reports a token; seq numbers the tokens ever queued *)
OnTokenDetected ==
    /\ running
    /\ \E mint \in QueueMints :
         /\ ~hasSeen(seenTokens, mint)
         /\ seenTokens' = seenAfter(seenTokens, mint)
         /\ tokenQueue' = Append(tokenQueue,
                                 [ mintAddress |-> mint,
                                   seq |-> Len(taken) + Len(tokenQueue) + 1 ])
    /\ UNCHANGED <<ledgerVars, pos, now, riskAlerts, probe, paperTrading,
                   engineVars, watchVars, isProcessing, proc, taken,
                   intervals, running>>

(* a callback that returns without its finally *)
procReturnedFlagKept(k) ==
    /\ isProcessing' = isProcessing
    /\ proc' = [proc EXCEPT ![k] = ProcIdle]

(* the finally of the callback k *)
procReturned(k) ==
    /\ isProcessing' = FALSE
    /\ proc' = [proc EXCEPT ![k] = ProcIdle]

(* setInterval: a callback of the queue processor, up to the first await of
   processToken (analyzeToken) *)
QueueTick(k) ==
    /\ Runnable
    /\ "queue" \in intervals
    /\ proc[k].pc = "idle"
    /\ k > 1 => proc[k - 1].pc # "idle"
    /\ ~queueBusy(isProcessing, tokenQueue)
    /\ isProcessing' = TRUE
    /\ tokenQueue' = Tail(tokenQueue)
    /\ taken' = Append(taken, Head(tokenQueue))
    /\ proc' = [proc EXCEPT ![k] = [ProcIdle EXCEPT !.pc = "analyze",
                                                    !.token = Head(tokenQueue)]]
    /\ UNCHANGED <<ledgerVars, pos, now, riskAlerts, probe, paperTrading,
                   engineVars, watchVars, seenTokens, intervals, running>>

(* processToken resumes with the analysis: it returns on 'ignore' and when
   analyzeToken threw, and awaits notifyDetection on a tier that buys *)
ProcAnalyzed(k) ==
    /\ Runnable
    /\ proc[k].pc = "analyze"
    /\ \E score \in ProcScores, scan \in ScanPrices, threw \in BOOLEAN :
         LET analysis == [ mintAddress |-> proc[k].token.mintAddress,
                           score |-> score,
                           confidence |-> confidenceOf(score),
                           priceSol |-> scan ]
         IN IF threw \/ analysis.confidence = "ignore"
            THEN procReturned(k)
            ELSE /\ buy["queue"].n < MaxBuys
                 /\ proc' = [proc EXCEPT ![k].pc = "notify",
                                         ![k].analysis = analysis]
                 /\ UNCHANGED isProcessing
    /\ UNCHANGED <<ledgerVars, pos, now, riskAlerts, probe, paperTrading,
                   engineVars, watchVars, tokenQueue, seenTokens, taken,
                   intervals, running>>

(* processToken resumes after notifyDetection and calls executeDirectBuy *)
ProcNotified(k) ==
    /\ Runnable
    /\ proc[k].pc = "notify"
    /\ buy["queue"].pc = "idle"
    /\ BuyBegin("queue", proc[k].analysis)
    /\ proc' = [proc EXCEPT ![k].pc = "buy"]
    /\ UNCHANGED <<totalCapitalSol, availableCapitalSol, openPositions,
                   dailyPnlSol, dailyTradeCount, dailyWinCount, dailyLossCount,
                   pos, now, probe, paperTrading, watchVars, wallet,
                   deadVolumeTimers, fast, slow, sellLog, savedTrades,
                   tokenQueue, isProcessing, seenTokens, taken, intervals,
                   running>>

(* executeDirectBuy has returned: processToken returns *)
ProcBought(k) ==
    /\ Runnable
    /\ proc[k].pc = "buy"
    /\ buy["queue"].pc = "idle"
    /\ procReturned(k)
    /\ UNCHANGED <<ledgerVars, pos, now, riskAlerts, probe, paperTrading,
                   engineVars, watchVars, tokenQueue, seenTokens, taken,
                   intervals, running>>

(* SpecQueue: the scanners, the queue processor with QueueTicks callbacks
   of its interval, and the buys of processToken, in a process that has
   seen no token yet or as many as seenTokens holds *)
SeenSizes == {0, seenTokensLimit}

QueueInit ==
    /\ FreshLedger
    /\ EngineFresh
    /\ WatchIdle
    /\ \E n \in SeenSizes :
         MainRunning([i \in 1..n |-> i],
                     [i \in 1..n |-> [mintAddress |-> i, seq |-> i]])

QueueNext ==
    \/ OnTokenDetected
    \/ \E k \in DOMAIN proc : QueueTick(k)
    \/ \E k \in DOMAIN proc : ProcAnalyzed(k)
    \/ \E k \in DOMAIN proc : ProcNotified(k)
    \/ \E k \in DOMAIN proc : ProcBought(k)
    \/ BuyPrice("queue")
    \/ BuyFilled("queue")
    \/ BuyNotified("queue")

SpecQueue == QueueInit /\ [][QueueNext]_vars

(* the interval of the queue processor keeps firing, and analyzeToken,
   notifyDetection, fetchCurrentPrice, executeBuy and notifyBuy all
   return or throw; the scanners report what and when they please *)
SpecQueueFair ==
    /\ SpecQueue
    /\ \A k \in 1..QueueTicks :
         /\ WF_vars(QueueTick(k))
         /\ WF_vars(ProcAnalyzed(k))
         /\ WF_vars(ProcNotified(k))
         /\ WF_vars(ProcBought(k))
    /\ WF_vars(BuyPrice("queue"))
    /\ WF_vars(BuyFilled("queue"))
    /\ WF_vars(BuyNotified("queue"))

----------------------------------------------------------------------------
(* the clock, the daily reset and the periodic capital sync *)

EngineTick ==
    /\ Runnable
    /\ AdvanceTime(EngineInstants)
    /\ UNCHANGED <<ledgerVars, pos, riskAlerts, probe, paperTrading, watchVars, runVars,
                   engineVars>>

DailyReset ==
    /\ Runnable
    /\ "dailyReset" \in intervals
    /\ dailyTradeCount > 0 \/ isPaused
    /\ resetDailyCounters
    /\ UNCHANGED <<pos, now, riskAlerts, probe, paperTrading, watchVars, runVars, engineVars>>

committedSol(P, ids) ==
    LET RECURSIVE sum(_)
        sum(k) == IF k = 0 THEN 0
                  ELSE sum(k - 1) + (P[ids[k]].entryAmountSol
                                      * P[ids[k]].remainingPercent) \div 100
    IN sum(Len(ids))

(* startPeriodicSummary: syncCapital, in live trading only, resumed with the
   balance of the wallet *)
SyncCapital ==
    /\ running
    /\ "summary" \in intervals
    /\ ~paperTrading
    /\ totalCapitalSol' = wallet
    /\ availableCapitalSol' = wallet - committedSol(pos, openPositions)
    /\ UNCHANGED <<openPositions, dailyPnlSol, dailyTradeCount, dailyWinCount,
                   dailyLossCount, isPaused, pauseUntil, pos, now, riskAlerts,
                   probe, paperTrading, watchVars, runVars, engineVars>>

Next ==
    \/ \E src \in Sources : BuyStart(src)
    \/ \E src \in Sources : BuyPrice(src)
    \/ \E src \in Sources : BuyFilled(src)
    \/ \E src \in Sources : BuyNotified(src)
    \/ \E f \in 1..MaxFastTicks : FastStart(f)
    \/ \E f \in 1..MaxFastTicks : FastPrices(f)
    \/ \E f \in 1..MaxFastTicks : FastSold(f)
    \/ \E f \in 1..MaxFastTicks : FastNotified(f)
    \/ \E s \in 1..MaxSlowTicks : SlowStart(s)
    \/ \E s \in 1..MaxSlowTicks : SlowPrice(s)
    \/ \E s \in 1..MaxSlowTicks : SlowRunner(s)
    \/ \E s \in 1..MaxSlowTicks : SlowTrailNotified(s)
    \/ \E s \in 1..MaxSlowTicks : SlowSold(s)
    \/ \E s \in 1..MaxSlowTicks : SlowCloseNotified(s)
    \/ \E s \in 1..MaxSlowTicks : SlowPartialSold(s)
    \/ \E s \in 1..MaxSlowTicks : SlowPartialNotified(s)
    \/ EngineTick
    \/ DailyReset
    \/ SyncCapital

Spec == Init /\ [][Next]_vars

----------------------------------------------------------------------------
(* SpecPause: the buy pipeline of the queue and of the dip buyer against   *)
(* the closes of the fast loop, the clock, the daily reset and the capital *)
(* sync, from a ledger that holds one open position and the result of the  *)
(* day so far.                                                             *)

PauseDailies == {<<0, 0, 0, 0>>, <<-1790, 6, 1, 5>>}

PauseInit ==
    /\ paperTrading \in BOOLEAN
    /\ totalCapitalSol \in (IF paperTrading THEN {initialCapital}
                            ELSE LiveBalances)
    /\ \E d \in PauseDailies :
         /\ dailyPnlSol = d[1]
         /\ dailyTradeCount = d[2]
         /\ dailyWinCount = d[3]
         /\ dailyLossCount = d[4]
    /\ LET held == ((totalCapitalSol - reserveAmount) * positionSizeHigh) \div 1000
       IN /\ pos = <<newPosition(1, 100, held, held, 0, FALSE)>>
          /\ availableCapitalSol = totalCapitalSol + dailyPnlSol - held
    /\ openPositions = <<1>>
    /\ isPaused = FALSE
    /\ pauseUntil = null
    /\ now = 0
    /\ riskAlerts = 0
    /\ probe = NoProbe
    /\ wallet = availableCapitalSol
    /\ WatchIdle
    /\ MainStarted
    /\ deadVolumeTimers = <<>>
    /\ fast = [f \in 1..MaxFastTicks |-> FastIdle]
    /\ slow = [t \in 1..MaxSlowTicks |-> SlowIdle]
    /\ buy = [src \in Sources |-> BuyIdle]
    /\ sellLog = [id \in DOMAIN pos |-> NoSells]
    /\ savedTrades = [id \in DOMAIN pos |-> 0]

PauseNext ==
    \/ \E src \in Sources : BuyStart(src)
    \/ \E src \in Sources : BuyPrice(src)
    \/ \E src \in Sources : BuyFilled(src)
    \/ \E src \in Sources : BuyNotified(src)
    \/ \E f \in 1..MaxFastTicks : FastStart(f)
    \/ \E f \in 1..MaxFastTicks : FastPrices(f)
    \/ \E f \in 1..MaxFastTicks : FastSold(f)
    \/ \E f \in 1..MaxFastTicks : FastNotified(f)
    \/ EngineTick
    \/ DailyReset
    \/ SyncCapital

SpecPause == PauseInit /\ [][PauseNext]_vars

----------------------------------------------------------------------------
(* The ledger that holds the one open position p, bought at instant 0 for  *)
(* the largest share of the deployable capital, with nothing else traded.  *)

heldOf(total) == ((total - reserveAmount) * positionSizeHigh) \div 1000

(* the ledger that holds the open positions of one of the sequences of
   Pss, each bought for that share *)
HoldingSeveral(Pss, fastTicks, slowTicks, wl, W) ==
    /\ paperTrading \in BOOLEAN
    /\ totalCapitalSol \in (IF paperTrading THEN {initialCapital}
                            ELSE LiveBalances)
    /\ \E ps \in Pss :
         pos = [i \in 1..Len(ps) |->
                  [ps[i] EXCEPT !.entryAmountSol = heldOf(totalCapitalSol),
                                !.tokenAmount = heldOf(totalCapitalSol)]]
    /\ availableCapitalSol =
         totalCapitalSol - Len(pos) * heldOf(totalCapitalSol)
    /\ openPositions = [i \in 1..Len(pos) |-> i]
    /\ dailyPnlSol = 0
    /\ dailyTradeCount = 0
    /\ dailyWinCount = 0
    /\ dailyLossCount = 0
    /\ isPaused = FALSE
    /\ pauseUntil = null
    /\ now = 0
    /\ riskAlerts = 0
    /\ probe = NoProbe
    /\ wallet = availableCapitalSol
    /\ WatchStarted(wl, W)
    /\ MainStarted
    /\ deadVolumeTimers = <<>>
    /\ fast = [f \in 1..fastTicks |-> FastIdle]
    /\ slow = [t \in 1..slowTicks |-> SlowIdle]
    /\ buy = [src \in Sources |-> BuyIdle]
    /\ sellLog = [id \in DOMAIN pos |-> NoSells]
    /\ savedTrades = [id \in DOMAIN pos |-> 0]

HoldingWatching(Ps, fastTicks, slowTicks, wl, W) ==
    HoldingSeveral({<<p>> : p \in Ps}, fastTicks, slowTicks, wl, W)

HoldingInit(Ps, fastTicks, slowTicks) ==
    HoldingWatching(Ps, fastTicks, slowTicks, <<>>, <<>>)

----------------------------------------------------------------------------
(* SpecFast: the ticks of the fast loop, one after the other for as long   *)
(* as the clock runs, on one position: a scalp or a runner, at the price   *)
(* and the peak the monitor last saw for it.                               *)

\* <<currentPriceSol, highestPriceSol>>, in percent of the entry price
FastKnown == { <<100, 100>>, <<105, 105>>, <<95, 100>>, <<90, 100>>,
               <<85, 100>> }
FastInstants == { 0, 15000, 16000, 45000, 180000, 181000, 300000, 301000,
                  420000, 421000 }
\* fetchCurrentPrice: 0 stands for null and for a price of 0
FastQuotes == {0, 80, 88, 93, 96, 100}

FastHeld ==
    { [newPosition(1, 100, 0, 0, 0, runner)
          EXCEPT !.currentPriceSol = k[1], !.highestPriceSol = k[2],
                 !.pnlPercent = pnlPercentOf(k[1], 100)]
      : runner \in BOOLEAN, k \in FastKnown }

FastInit == HoldingInit(FastHeld, MaxFastTicks, MaxSlowTicks)

(* setInterval: the next tick of the fast loop, once the last has returned *)
FastAgain(f) ==
    /\ running
    /\ fast[f].pc = "done"
    /\ fast' = [fast EXCEPT ![f] = FastIdle]
    /\ UNCHANGED <<ledgerVars, pos, now, riskAlerts, probe, paperTrading, watchVars, runVars,
                   wallet, deadVolumeTimers, slow, buy, sellLog, savedTrades>>

FastClock ==
    /\ Runnable
    /\ AdvanceTime(FastInstants)
    /\ UNCHANGED <<ledgerVars, pos, riskAlerts, probe, paperTrading, watchVars, runVars,
                   engineVars>>

FastNext ==
    \/ \E f \in DOMAIN fast : FastStart(f)
    \/ \E f \in DOMAIN fast : FastPricesFrom(f, FastQuotes)
    \/ \E f \in DOMAIN fast : FastSold(f)
    \/ \E f \in DOMAIN fast : FastNotified(f)
    \/ \E f \in DOMAIN fast : FastAgain(f)
    \/ FastClock

SpecFast == FastInit /\ [][FastNext]_vars

----------------------------------------------------------------------------
(* SpecDead: the fast loop on a position whose price no tick obtains.  The *)
(* interval fires for ever, every call the tick awaits returns, and the    *)
(* clock runs on until the position has been dead for over deadVolumeMax.  *)

MaxIdleClock == 30000
DeadInstants == {16000, 181000, 301000, 421000, 460000}

(* the clock; until a tick has started the dead timer it stays within
   MaxIdleClock *)
DeadClock ==
    /\ Runnable
    /\ stillOpen(pos, openPositions) # <<>>
    /\ \E t \in DeadInstants :
         /\ t > now
         /\ 1 \notin DOMAIN deadVolumeTimers => t <= MaxIdleClock
         /\ now' = t
    /\ UNCHANGED <<ledgerVars, pos, riskAlerts, probe, paperTrading, watchVars, runVars,
                   engineVars>>

DeadNext ==
    \/ \E f \in DOMAIN fast : FastStart(f)
    \/ \E f \in DOMAIN fast : FastPricesFrom(f, {0})
    \/ \E f \in DOMAIN fast : FastSold(f)
    \/ \E f \in DOMAIN fast : FastNotified(f)
    \/ \E f \in DOMAIN fast : FastAgain(f)
    \/ DeadClock

SpecDead ==
    /\ FastInit
    /\ [][DeadNext]_vars
    /\ WF_vars(DeadClock)
    /\ \A f \in 1..MaxFastTicks :
         /\ WF_vars(FastStart(f))
         /\ WF_vars(FastPricesFrom(f, {0}))
         /\ WF_vars(FastSold(f))
         /\ WF_vars(FastNotified(f))
         /\ WF_vars(FastAgain(f))

----------------------------------------------------------------------------
(* SpecLadder: LadderTicks ticks of the slow loop on one position, a scalp *)
(* or a runner at its entry price; a tick of the interval starts while the *)
(* tick before it is still at one of its awaits.                           *)

LadderTicks == 2

LadderHeld == { newPosition(1, 100, 0, 0, 0, runner) : runner \in BOOLEAN }

LadderInit == HoldingInit(LadderHeld, MaxFastTicks, LadderTicks)

LadderNext ==
    \/ \E s \in DOMAIN slow : SlowStart(s)
    \/ \E s \in DOMAIN slow : SlowPrice(s)
    \/ \E s \in DOMAIN slow : SlowRunner(s)
    \/ \E s \in DOMAIN slow : SlowTrailNotified(s)
    \/ \E s \in DOMAIN slow : SlowSold(s)
    \/ \E s \in DOMAIN slow : SlowCloseNotified(s)
    \/ \E s \in DOMAIN slow : SlowPartialSold(s)
    \/ \E s \in DOMAIN slow : SlowPartialNotified(s)

SpecLadder == LadderInit /\ [][LadderNext]_vars

----------------------------------------------------------------------------
(* SpecPromote: a tick of the slow loop on one scalp position held at its  *)
(* entry price, with the answers of the DexScreener query of               *)
(* checkIfRunner; no trailing stop and no timeout applies to it.           *)

PromoteCaps == {<<0, 0>>, <<199999, 0>>, <<200000, 0>>, <<0, 250000>>}
PromoteVolumes == {<<0, 0>>, <<10, 80>>, <<11, 80>>}
PromoteTxns == {<<0, 0>>, <<54, 46>>, <<55, 45>>}
PromoteChanges == {0, 1}

PromoteAnswers ==
    { NoAnswer, RunnerAnswer(TRUE, FALSE, <<0, 0>>, <<0, 0>>, <<0, 0>>, 0) }
    \cup { RunnerAnswer(TRUE, TRUE, cap, vol, txns, change) :
             cap \in PromoteCaps, vol \in PromoteVolumes,
             txns \in PromoteTxns, change \in PromoteChanges }

PromoteInit ==
    HoldingInit({newPosition(1, 100, 0, 0, 0, FALSE)}, MaxFastTicks, MaxSlowTicks)

PromoteNext ==
    \/ \E s \in DOMAIN slow : SlowStart(s)
    \/ \E s \in DOMAIN slow : SlowPrice(s)
    \/ \E s \in DOMAIN slow : SlowRunnerFrom(s, PromoteAnswers)
    \/ \E s \in DOMAIN slow : SlowPartialSold(s)
    \/ \E s \in DOMAIN slow : SlowPartialNotified(s)

SpecPromote == PromoteInit /\ [][PromoteNext]_vars

----------------------------------------------------------------------------
(* SpecPair: one tick of the fast loop on two open positions, a scalp or a *)
(* runner each, the fetch of each price settling on its own: with a price  *)
(* that stops a scalp, with one that stops nothing, or with none.          *)

PairQuotes == {0, 80, 100}

PairHeld ==
    { <<newPosition(1, 100, 0, 0, 0, a), newPosition(2, 100, 0, 0, 0, b)>>
      : a \in BOOLEAN, b \in BOOLEAN }

PairInit ==
    HoldingSeveral(PairHeld, MaxFastTicks, MaxSlowTicks, <<>>, <<>>)

PairNext ==
    \/ \E f \in DOMAIN fast : FastStart(f)
    \/ \E f \in DOMAIN fast : \E j \in 1..Len(fast[f].open) :
          FastFetched(f, j, PairQuotes)
    \/ \E f \in DOMAIN fast : FastSettled(f)
    \/ \E f \in DOMAIN fast : FastSold(f)
    \/ \E f \in DOMAIN fast : FastNotified(f)

SpecPair == PairInit /\ [][PairNext]_vars

----------------------------------------------------------------------------
(* SpecCrowd: the queue pipeline, the buy callback of the dip buyer and a  *)
(* tick of the fast loop, on a ledger that holds one position less than    *)
(* maxOpenPositions or as many, of which two are of mints the scanners     *)
(* report, with a capital next to the reserve or well above it.  The first *)
(* position is a scalp, which the price of the tick stops; the others are  *)
(* runners, which it leaves open.                                          *)

CrowdCounts == {maxOpenPositions - 1, maxOpenPositions}
CrowdCapitals ==
    {reserveAmount + 10, reserveAmount + minDeployable, initialCapital \div 2}
CrowdQuotes == {85}

CrowdInit ==
    /\ paperTrading \in BOOLEAN
    /\ totalCapitalSol \in (IF paperTrading THEN {initialCapital}
                            ELSE LiveBalances)
    /\ \E n \in CrowdCounts :
         /\ openPositions = [i \in 1..n |-> i]
         /\ pos = [i \in 1..n |->
                     newPosition(seenTokensLimit + i, 100, minPositionSize,
                                 minPositionSize, 0, i > 1)]
    /\ availableCapitalSol \in CrowdCapitals
    /\ dailyPnlSol = 0
    /\ dailyTradeCount = 0
    /\ dailyWinCount = 0
    /\ dailyLossCount = 0
    /\ isPaused = FALSE
    /\ pauseUntil = null
    /\ now = 0
    /\ riskAlerts = 0
    /\ probe = NoProbe
    /\ wallet = availableCapitalSol
    /\ deadVolumeTimers = <<>>
    /\ fast = [f \in 1..MaxFastTicks |-> FastIdle]
    /\ slow = [t \in 1..MaxSlowTicks |-> SlowIdle]
    /\ buy = [src \in Sources |-> BuyIdle]
    /\ sellLog = [id \in DOMAIN pos |-> NoSells]
    /\ savedTrades = [id \in DOMAIN pos |-> 0]
    /\ WatchIdle
    /\ MainStarted

CrowdNext ==
    \/ OnTokenDetected
    \/ \E k \in DOMAIN proc : QueueTick(k)
    \/ \E k \in DOMAIN proc : ProcAnalyzed(k)
    \/ \E k \in DOMAIN proc : ProcNotified(k)
    \/ \E k \in DOMAIN proc : ProcBought(k)
    \/ BuyStart("dip")
    \/ BuyPrice("queue")
    \/ BuyFilled("queue")
    \/ BuyNotified("queue")
    \/ \E f \in DOMAIN fast : FastStart(f)
    \/ \E f \in DOMAIN fast : FastPricesFrom(f, CrowdQuotes)
    \/ \E f \in DOMAIN fast : FastSold(f)
    \/ \E f \in DOMAIN fast : FastNotified(f)

SpecCrowd == CrowdInit /\ [][CrowdNext]_vars

----------------------------------------------------------------------------
(* SpecTrail: getScalpTrail and getRunnerTrail called for one peak P&L     *)
(* after the other, at and around every level of the two tables.           *)

TrailPeaks ==
    {-20, 0, 9, 14, 15, 16, 29, 30, 31, 49, 50, 51, 79, 80, 81, 149, 150, 151,
     299, 300, 301, 1000}

(* the bands of the two profiles for the peak P&L pnl, and the call before *)
CallTrails ==
    /\ \E pnl \in TrailPeaks :
         probe' = [ op |-> "getTrail", pnl |-> pnl,
                    scalp |-> getScalpTrail(pnl),
                    runner |-> getRunnerTrail(pnl),
                    before |-> IF probe.op = "getTrail"
                               THEN Some([ pnl |-> probe.pnl,
                                           scalp |-> probe.scalp,
                                           runner |-> probe.runner ])
                               ELSE null ]
    /\ UNCHANGED <<ledgerVars, pos, now, riskAlerts, paperTrading, watchVars, runVars,
                   engineVars>>

SpecTrail == Init /\ [][CallTrails]_vars

----------------------------------------------------------------------------
(* SpecOutage: the ticks of the fast loop, one after the other as the      *)
(* clock runs, on one position whose price comes and goes: each fetch      *)
(* answers with a price that stops nothing, or with none.                  *)

OutageQuotes == {0, 100}
OutageInstants == {15000, 16000, 181000, 200000}

OutageClock ==
    /\ Runnable
    /\ AdvanceTime(OutageInstants)
    /\ UNCHANGED <<ledgerVars, pos, riskAlerts, probe, paperTrading, watchVars, runVars,
                   engineVars>>

OutageNext ==
    \/ \E f \in DOMAIN fast : FastStart(f)
    \/ \E f \in DOMAIN fast : \E j \in 1..Len(fast[f].open) :
          FastFetched(f, j, OutageQuotes)
    \/ \E f \in DOMAIN fast : FastSettled(f)
    \/ \E f \in DOMAIN fast : FastSold(f)
    \/ \E f \in DOMAIN fast : FastNotified(f)
    \/ \E f \in DOMAIN fast : FastAgain(f)
    \/ OutageClock

SpecOutage == FastInit /\ [][OutageNext]_vars

----------------------------------------------------------------------------
(* The dip buyer (dipBuyer.ts): checkWatchlist.  The mints are numbered in *)
(* the order the keys were inserted, so that the iterator of the Map,      *)
(* after the key m, goes on with the least key above m still in the Map.   *)
(* Prices are in percent of the reference price of the entry.              *)

keyDelete(wl, m) == SelectSeq(wl, LAMBDA k : k # m)

newWatched(analysis, price, t) ==
    [ analysis |-> analysis, addedAt |-> t, highestPrice |-> price,
      lowestSinceHigh |-> price, state |-> "watching" ]

(* the object after the tick stored the price: a new high resets the low *)
watchedPrice(w, price) ==
    LET low == IF price > w.highestPrice THEN price ELSE w.lowestSinceHigh
    IN [w EXCEPT !.highestPrice = Max(price, w.highestPrice),
                 !.lowestSinceHigh = Min(price, low)]

(* dipFromHigh >= pct *)
dipReached(w, pct) ==
    (w.highestPrice - w.lowestSinceHigh) * 100 >= pct * w.highestPrice

(* ((price - low) / low) * 100 >= reboundConfirmPercent *)
reboundReached(price, low) ==
    (price - low) * 100 >= reboundConfirmPercent * low

(* a loop that goes to the next entry without the test of its age *)
dipNextNoExpiry(m, wl, W, t) ==
    LET rest == SelectSeq(wl, LAMBDA k : k > m)
    IN IF rest = <<>> THEN [mint |-> 0, watchlist |-> wl, watched |-> W]
       ELSE [mint |-> rest[1], watchlist |-> wl, watched |-> W]

(* the for-loop after the entry of key m: the entries past their
   maxWatchDuration are expired and deleted, up to the first entry the tick
   fetches a price for (mint 0: the loop has ended) *)
RECURSIVE dipNext(_, _, _, _)
dipNext(m, wl, W, t) ==
    LET rest == SelectSeq(wl, LAMBDA k : k > m)
    IN IF rest = <<>> THEN [mint |-> 0, watchlist |-> wl, watched |-> W]
       ELSE IF t - W[rest[1]].addedAt > maxWatchDuration
       THEN dipNext(rest[1], keyDelete(wl, rest[1]),
                    [W EXCEPT ![rest[1]].state = "expired"], t)
       ELSE [mint |-> rest[1], watchlist |-> wl, watched |-> W]

(* the tick d goes on after the entry of key m *)
DipGo(d, m, wl, W) ==
    LET n == dipNext(m, wl, W, now)
    IN /\ watchlist' = n.watchlist
       /\ watched' = n.watched
       /\ dip' = [dip EXCEPT ![d] =
                    IF n.mint = 0 THEN [DipIdle EXCEPT !.pc = "done"]
                    ELSE [pc |-> "price", mint |-> n.mint]]

(* setInterval: a tick of checkWatchlist starts, whether or not the tick
   before it has returned *)
DipStart(d) ==
    /\ Runnable
    /\ "watchlist" \in intervals
    /\ dip[d].pc = "idle"
    /\ d > 1 => dip[d - 1].pc # "idle"
    /\ DipGo(d, 0, watchlist, watched)
    /\ UNCHANGED <<ledgerVars, pos, now, riskAlerts, probe, paperTrading, runVars,
                   engineVars, add, signalLog>>

(* the tick resumes with the price of its entry: the state machine *)
DipPriceFrom(d, Q) ==
    /\ Runnable
    /\ dip[d].pc = "price"
    /\ \E price \in Q :
         LET m == dip[d].mint
             w == watchedPrice(watched[m], price)
             W == [watched EXCEPT ![m] = w]
             abandoned == [watched EXCEPT ![m] = [w EXCEPT !.state = "abandoned"]]
         IN IF price = 0 THEN DipGo(d, m, watchlist, watched)
            ELSE IF w.state = "watching"
            THEN IF dipReached(w, maxDipPercent)
                 THEN DipGo(d, m, keyDelete(watchlist, m), abandoned)
                 ELSE IF dipReached(w, minDipPercent)
                 THEN DipGo(d, m, watchlist,
                            [watched EXCEPT
                                ![m] = [w EXCEPT !.state = "waiting_rebound"]])
                 ELSE DipGo(d, m, watchlist, W)
            ELSE IF w.state = "waiting_rebound"
            THEN IF dipReached(w, maxDipPercent)
                 THEN DipGo(d, m, keyDelete(watchlist, m), abandoned)
                 ELSE IF reboundReached(price, w.lowestSinceHigh)
                 THEN /\ dip' = [dip EXCEPT ![d].pc = "delay"]
                      /\ watched' = W
                      /\ UNCHANGED watchlist
                 ELSE DipGo(d, m, watchlist, W)
            ELSE DipGo(d, m, watchlist, W)
    /\ UNCHANGED <<ledgerVars, pos, now, riskAlerts, probe, paperTrading, runVars,
                   engineVars, add, signalLog>>

(* the delay of 2 s before the confirmation has passed *)
DipDelay(d) ==
    /\ Runnable
    /\ dip[d].pc = "delay"
    /\ dip' = [dip EXCEPT ![d].pc = "confirm"]
    /\ UNCHANGED <<ledgerVars, pos, now, riskAlerts, probe, paperTrading, runVars,
                   engineVars, watchlist, watched, add, signalLog>>

(* the tick resumes with the confirmation price: a rebound that holds sets
   buy_signal and calls onBuySignal, that is executeDirectBuy with the
   analysis of the entry; once the callback has returned (at once when
   shouldBuy gives no order) the key is deleted and the loop goes on *)
DipConfirmFrom(d, Q) ==
    /\ Runnable
    /\ dip[d].pc \in {"confirm", "callback"}
    /\ dip[d].pc = "callback" => buy["dip"].pc = "idle"
    /\ \E confirmPrice \in Q :
         LET m == dip[d].mint
             w == watched[m]
             called == /\ dip[d].pc = "confirm"
                       /\ confirmPrice # 0
                       /\ confirmPrice > w.lowestSinceHigh
                       /\ reboundReached(confirmPrice, w.lowestSinceHigh)
             r == shouldBuy(w.analysis, State, pos, now)
             signalled == [watched EXCEPT ![m].state = "buy_signal"]
         IN /\ (called /\ r.order # null)
                  => (buy["dip"].pc = "idle" /\ buy["dip"].n < MaxBuys)
            /\ isPaused' = IF called THEN r.isPaused ELSE isPaused
            /\ pauseUntil' = IF called THEN r.pauseUntil ELSE pauseUntil
            /\ riskAlerts' = riskAlerts + (IF called THEN r.alerts ELSE 0)
            /\ signalLog' =
                  IF called
                  THEN Append(signalLog,
                              [ mint |-> m, order |-> r.order,
                                allowed |-> canOpenPosition(State, now).allowed,
                                owned |-> alreadyOwned(w.analysis, State, pos) ])
                  ELSE signalLog
            /\ buy' = IF called
                      THEN [buy EXCEPT !["dip"] = buyBegun(@, w.analysis, r)]
                      ELSE buy
            /\ IF called /\ r.order # null
               THEN /\ dip' = [dip EXCEPT ![d].pc = "callback"]
                    /\ watched' = signalled
                    /\ UNCHANGED watchlist
               ELSE IF called
               THEN DipGo(d, m, keyDelete(watchlist, m), signalled)
               ELSE IF dip[d].pc = "callback"
               THEN DipGo(d, m, keyDelete(watchlist, m), watched)
               ELSE DipGo(d, m, watchlist, watched)
    /\ UNCHANGED <<totalCapitalSol, availableCapitalSol, openPositions,
                   dailyPnlSol, dailyTradeCount, dailyWinCount, dailyLossCount,
                   pos, now, probe, paperTrading, runVars, wallet, deadVolumeTimers,
                   fast, slow, sellLog, savedTrades, add>>

(* setInterval: the next tick, once this invocation has returned *)
DipAgain(d) ==
    /\ running
    /\ dip[d].pc = "done"
    /\ dip' = [dip EXCEPT ![d] = DipIdle]
    /\ UNCHANGED <<ledgerVars, pos, now, riskAlerts, probe, paperTrading, runVars,
                   engineVars, watchlist, watched, add, signalLog>>

----------------------------------------------------------------------------
(* SpecWatch: the ticks of checkWatchlist, DipTicks of them at a time, on  *)
(* a watchlist of WatchEntries entries that processToken added at instant  *)
(* 0 at their reference price, against the clock.                          *)

WatchEntries == 2
\* fetchCurrentPrice: 0 stands for null and for a price of 0
WatchQuotes == {0, 60, 94, 95, 97, 100}
WatchInstants == {0, 600001}

watchAnalysis(mint, score) ==
    [ mintAddress |-> mint, score |-> score, confidence |-> confidenceOf(score),
      priceSol |-> 100 ]

WatchInit ==
    /\ FreshLedger
    /\ EngineIdle
    /\ \E score \in DipScores :
         WatchStarted([m \in 1..WatchEntries |-> m],
                      [m \in 1..WatchEntries |->
                         newWatched(watchAnalysis(m, score), 100, 0)])

WatchClock ==
    /\ Runnable
    /\ AdvanceTime(WatchInstants)
    /\ UNCHANGED <<ledgerVars, pos, riskAlerts, probe, paperTrading,
                   engineVars, watchVars, runVars>>

WatchNext ==
    \/ \E d \in DOMAIN dip : DipStart(d)
    \/ \E d \in DOMAIN dip : DipPriceFrom(d, WatchQuotes)
    \/ \E d \in DOMAIN dip : DipDelay(d)
    \/ \E d \in DOMAIN dip : DipConfirmFrom(d, WatchQuotes)
    \/ \E d \in DOMAIN dip : DipAgain(d)
    \/ WatchClock

SpecWatch == WatchInit /\ [][WatchNext]_vars

(* setInterval fires every checkInterval, each awaited fetch, delay and
   callback settles, and the clock goes on *)
(* SpecRebound: checkWatchlist on one entry watched from the price 100,   *)
(* whose price dips, sets a new high and comes back a little.             *)

ReboundQuotes == {94, 107, 110}

ReboundInit ==
    /\ FreshLedger
    /\ EngineIdle
    /\ \E score \in DipScores :
         WatchStarted(<<1>>, <<newWatched(watchAnalysis(1, score), 100, 0)>>)

ReboundNext ==
    \/ \E d \in DOMAIN dip : DipStart(d)
    \/ \E d \in DOMAIN dip : DipPriceFrom(d, ReboundQuotes)
    \/ \E d \in DOMAIN dip : DipDelay(d)
    \/ \E d \in DOMAIN dip : DipConfirmFrom(d, ReboundQuotes)
    \/ \E d \in DOMAIN dip : DipAgain(d)

SpecRebound == ReboundInit /\ [][ReboundNext]_vars

SpecWatchFair ==
    /\ SpecWatch
    /\ WF_vars(WatchClock)
    /\ \A d \in 1..DipTicks :
          /\ WF_vars(DipStart(d))
          /\ WF_vars(DipPriceFrom(d, WatchQuotes))
          /\ WF_vars(DipDelay(d))
          /\ WF_vars(DipConfirmFrom(d, WatchQuotes))
          /\ WF_vars(DipAgain(d))

----------------------------------------------------------------------------
(* The dip buyer: addToWatchlist, called by processToken for a token of    *)
(* confidence 'watch'; the queue processor runs one processToken at a time *)

(* the key the eviction loop picks: the first, in the order of the Map, of
   the entries with the least addedAt *)
oldestKey(wl, W) ==
    LET first == CHOOSE i \in 1..Len(wl) :
                    /\ \A j \in 1..Len(wl) : W[wl[i]].addedAt <= W[wl[j]].addedAt
                    /\ \A j \in 1..(i - 1) : W[wl[j]].addedAt > W[wl[i]].addedAt
    IN wl[first]

inWatchlist(wl, mint) == \E i \in 1..Len(wl) : wl[i] = mint

MaxAdds == 2
AdmitScores == {40}
\* fetchCurrentPrice: 0 stands for null and for a price of 0
AdmitQuotes == {0, 100}
AdmitInstants == {0, 1000}
AdmitSizes == {0, maxWatchlistSize - 1, maxWatchlistSize}

(* addToWatchlist up to its price fetch: the has() test and the eviction *)
AddStart ==
    /\ Runnable
    /\ add.pc = "idle"
    /\ add.calls < MaxAdds
    /\ \E mint \in {Len(watched) + 1}
                    \cup {watchlist[i] : i \in {Len(watchlist)} \ {0}} :
         LET called == [add EXCEPT !.calls = @ + 1, !.mint = mint,
                                   !.admitted = FALSE, !.before = watchlist]
         IN IF inWatchlist(watchlist, mint)
            THEN /\ add' = called
                 /\ UNCHANGED watchlist
            ELSE /\ add' = [called EXCEPT !.pc = "price"]
                 /\ watchlist' =
                       IF Len(watchlist) >= maxWatchlistSize
                       THEN keyDelete(watchlist, oldestKey(watchlist, watched))
                       ELSE watchlist
    /\ UNCHANGED <<ledgerVars, pos, now, riskAlerts, probe, paperTrading, runVars,
                   engineVars, watched, dip, signalLog>>

(* addToWatchlist resumes with the reference price *)
AddPrice ==
    /\ Runnable
    /\ add.pc = "price"
    /\ \E currentPrice \in AdmitQuotes, score \in AdmitScores :
         IF currentPrice = 0
         THEN /\ add' = [add EXCEPT !.pc = "idle"]
              /\ UNCHANGED <<watchlist, watched>>
         ELSE /\ watched' = Append(watched,
                                newWatched(watchAnalysis(add.mint, score),
                                           currentPrice, now))
              /\ watchlist' = Append(watchlist, add.mint)
              /\ add' = [add EXCEPT !.pc = "notify", !.admitted = TRUE]
    /\ UNCHANGED <<ledgerVars, pos, now, riskAlerts, probe, paperTrading, runVars,
                   engineVars, dip, signalLog>>

(* addToWatchlist resumes after notifyDetection and returns *)
AddNotified ==
    /\ Runnable
    /\ add.pc = "notify"
    /\ add' = [add EXCEPT !.pc = "idle"]
    /\ UNCHANGED <<ledgerVars, pos, now, riskAlerts, probe, paperTrading, runVars,
                   engineVars, watchlist, watched, dip, signalLog>>

----------------------------------------------------------------------------
(* SpecAdmit: MaxAdds calls of addToWatchlist on a watchlist that is       *)
(* empty, one short of full or full, its entries added a second apart.     *)

AdmitInit ==
    /\ FreshLedger
    /\ EngineIdle
    /\ \E n \in AdmitSizes, score \in AdmitScores :
         WatchStarted([m \in 1..n |-> m],
                      [m \in 1..n |->
                         newWatched(watchAnalysis(m, score), 100,
                                    (m - n - 1) * 1000)])

AdmitClock ==
    /\ Runnable
    /\ AdvanceTime(AdmitInstants)
    /\ UNCHANGED <<ledgerVars, pos, riskAlerts, probe, paperTrading,
                   engineVars, watchVars, runVars>>

AdmitNext ==
    \/ AddStart
    \/ AddPrice
    \/ AddNotified
    \/ AdmitClock

SpecAdmit == AdmitInit /\ [][AdmitNext]_vars

----------------------------------------------------------------------------
(* index.ts gracefulShutdown, the handler of SIGINT and SIGTERM *)

(* a stopMonitor that leaves the slow loop scheduled *)
stopMonitorFastOnly(ts) == ts \ {"fast"}

(* a process that goes on after the stop operations *)
processStays(ts) == [intervals |-> ts, running |-> TRUE]

(* stopDipBuyer: clearInterval(dipCheckInterval) *)
stopDipBuyer(ts) == ts \ {"watchlist"}

(* stopMonitor: clearInterval(monitorInterval), clearInterval(fastCheckInterval) *)
stopMonitor(ts) == ts \ {"fast", "slow"}

(* process.exit(0): the process ends with the timers ts never cleared; none
   of its callbacks and none of its suspended invocations runs again *)
processExit(ts) == [intervals |-> ts, running |-> FALSE]

(* the handler has no await: stopPumpFunScanner closes the socket,
   stopDipBuyer and stopMonitor clear their intervals, stopMonitor empties
   deadVolumeTimers, and the process exits *)
GracefulShutdown ==
    /\ Runnable
    /\ LET exit == processExit(stopMonitor(stopDipBuyer(intervals)))
       IN /\ intervals' = exit.intervals
          /\ running' = exit.running
    /\ deadVolumeTimers' = <<>>
    /\ UNCHANGED <<ledgerVars, pos, now, riskAlerts, probe, paperTrading,
                   watchVars, wallet, fast, slow, buy, sellLog, savedTrades,
                   tokenQueue, isProcessing, seenTokens, proc, taken>>

(* SpecStop: the fast loop on one position and the watchlist loop on one
   entry, with prices that come or do not come, and the shutdown at any
   moment *)
StopQuotes == {0, 80}
StopWatchQuotes == {0, 100}

StopInit ==
    \E score \in DipScores :
        HoldingWatching(LadderHeld, MaxFastTicks, MaxSlowTicks, <<1>>,
                        <<newWatched(watchAnalysis(1, score), 100, 0)>>)

StopNext ==
    \/ \E f \in DOMAIN fast : FastStart(f)
    \/ \E f \in DOMAIN fast : FastPricesFrom(f, StopQuotes)
    \/ \E f \in DOMAIN fast : FastSold(f)
    \/ \E f \in DOMAIN fast : FastNotified(f)
    \/ \E f \in DOMAIN fast : FastAgain(f)
    \/ \E d \in DOMAIN dip : DipStart(d)
    \/ \E d \in DOMAIN dip : DipPriceFrom(d, StopWatchQuotes)
    \/ \E d \in DOMAIN dip : DipAgain(d)
    \/ GracefulShutdown

SpecStop == StopInit /\ [][StopNext]_vars

----------------------------------------------------------------------------
(* SpecRisk: the risk manager called on ledgers of bounded shape.          *)

RiskCapitals == {640, 650, 800, 5600}
\* <<dailyPnlSol, dailyTradeCount, dailyWinCount, dailyLossCount>>
RiskDailies == { <<0, 0, 0, 0>>, <<0 - 500, 5, 3, 2>>, <<0 - 1799, 5, 3, 2>>,
                 <<0 - 1800, 5, 3, 2>>, <<0 - 3200, 5, 3, 2>>,
                 <<400, 5, 3, 2>>, <<400, 4, 3, 1>> }
RiskOpenCounts == {1, maxOpenPositions - 1, maxOpenPositions}
RiskPauses == {<<FALSE, null>>, <<TRUE, Some(pauseDuration)>>}
RiskInstants == {0, pauseDuration - 1, pauseDuration, 2 * pauseDuration}
RiskScores == {30, 40, 45, 50, 54, 55, 60, 65}
RiskMints == {1, 99}

RiskInit ==
    /\ \E n \in RiskOpenCounts :
         /\ openPositions = [i \in 1..n |-> i]
         /\ pos = [i \in 1..n |->
                     newPosition(i, 100, minPositionSize, minPositionSize, 0, FALSE)]
    /\ availableCapitalSol \in RiskCapitals
    /\ totalCapitalSol = availableCapitalSol + minPositionSize * Len(openPositions)
    /\ \E d \in RiskDailies :
         /\ dailyPnlSol = d[1]
         /\ dailyTradeCount = d[2]
         /\ dailyWinCount = d[3]
         /\ dailyLossCount = d[4]
    /\ \E p \in RiskPauses : isPaused = p[1] /\ pauseUntil = p[2]
    \* a pause is entered on a daily loss, which a day with no trade has not
    /\ isPaused => dailyTradeCount > 0
    /\ now = 0
    /\ riskAlerts = 0
    /\ probe = NoProbe
    /\ paperTrading = FALSE
    /\ EngineIdle
    /\ WatchIdle

CallCanOpenPosition ==
    LET r == canOpenPosition(State, now)
    IN /\ isPaused' = r.isPaused
       /\ pauseUntil' = r.pauseUntil
       /\ riskAlerts' = riskAlerts + r.alerts
       /\ probe' = [ op |-> "canOpenPosition", at |-> now, score |-> 0,
                     confidence |-> "ignore", before |-> State,
                     gateCalled |-> TRUE, allowed |-> r.allowed,
                     isPaused |-> r.isPaused, pauseUntil |-> r.pauseUntil,
                     alerts |-> r.alerts, order |-> null, mint |-> 0 ]
       /\ UNCHANGED <<totalCapitalSol, availableCapitalSol, openPositions,
                      dailyPnlSol, dailyTradeCount, dailyWinCount,
                      dailyLossCount, pos, now, paperTrading, watchVars, runVars, engineVars>>

CallShouldBuy ==
    \E score \in RiskScores, mint \in RiskMints :
      LET analysis == [ mintAddress |-> mint, score |-> score,
                        confidence |-> confidenceOf(score) ]
          r == shouldBuy(analysis, State, pos, now)
          called == analysis.confidence \notin {"ignore", "watch"}
      IN /\ isPaused' = r.isPaused
         /\ pauseUntil' = r.pauseUntil
         /\ riskAlerts' = riskAlerts + r.alerts
         /\ probe' = [ op |-> "shouldBuy", at |-> now, score |-> score,
                       confidence |-> analysis.confidence, before |-> State,
                       gateCalled |-> called,
                       allowed |-> called /\ canOpenPosition(State, now).allowed,
                       isPaused |-> r.isPaused, pauseUntil |-> r.pauseUntil,
                       alerts |-> r.alerts, order |-> r.order, mint |-> mint ]
         /\ UNCHANGED <<totalCapitalSol, availableCapitalSol, openPositions,
                        dailyPnlSol, dailyTradeCount, dailyWinCount,
                        dailyLossCount, pos, now, paperTrading, watchVars, runVars, engineVars>>

RiskTick ==
    /\ AdvanceTime(RiskInstants)
    /\ UNCHANGED <<ledgerVars, pos, riskAlerts, probe, paperTrading, watchVars, runVars, engineVars>>

RiskReset ==
    /\ resetDailyCounters
    /\ UNCHANGED <<pos, now, riskAlerts, probe, paperTrading, watchVars, runVars, engineVars>>

RiskNext == CallCanOpenPosition \/ CallShouldBuy \/ RiskTick \/ RiskReset

SpecRisk == RiskInit /\ [][RiskNext]_vars

----------------------------------------------------------------------------
(* Claims on the risk manager, under SpecRisk *)

GateCalledWhilePaused ==
    /\ probe.gateCalled
    /\ probe.before.isPaused
    /\ probe.before.pauseUntil # null

LossAtCeiling(state) ==
    /\ state.dailyPnlSol < 0
    /\ (0 - state.dailyPnlSol) * 100 >= maxDailyLoss * initialCapital

\* C5: canOpenPosition never allows when it is called with isPaused = true
\* and pauseUntil strictly in the future, and such a call leaves isPaused
\* and pauseUntil as they were.
C5_PausedGateDenies ==
    (GateCalledWhilePaused /\ probe.at < probe.before.pauseUntil[1])
    => /\ ~probe.allowed
       /\ probe.isPaused = probe.before.isPaused
       /\ probe.pauseUntil = probe.before.pauseUntil

\* a call made during a running pause that every other check would pass
C5_Witness ==
    /\ GateCalledWhilePaused
    /\ probe.at < probe.before.pauseUntil[1]
    /\ Len(probe.before.openPositions) < maxOpenPositions
    /\ probe.before.dailyPnlSol >= 0
    /\ probe.before.availableCapitalSol - reserveAmount >= minDeployable
    /\ ~probe.allowed
    /\ isPaused

\* C6 as stated: a call with isPaused = true and now >= pauseUntil returns
\* with isPaused = false and pauseUntil = null, whatever the other fields.
C6_ExpiredPauseAlwaysCleared ==
    (GateCalledWhilePaused /\ probe.at >= probe.before.pauseUntil[1])
    => (~probe.isPaused /\ probe.pauseUntil = null)

\* C6 as amended: such a call clears the expired pause; it returns with
\* isPaused = false and pauseUntil = null unless the daily-loss rule fires
\* in the same call (fewer open positions than the cap, daily loss at or
\* above the ceiling), and then it denies with a new pause that ends at
\* now + pauseDuration.
C6_ExpiredPauseClearedOrReentered ==
    (GateCalledWhilePaused /\ probe.at >= probe.before.pauseUntil[1])
    => IF /\ Len(probe.before.openPositions) < maxOpenPositions
          /\ LossAtCeiling(probe.before)
       THEN /\ ~probe.allowed
            /\ probe.isPaused
            /\ probe.pauseUntil = Some(probe.at + pauseDuration)
       ELSE /\ ~probe.isPaused
            /\ probe.pauseUntil = null

\* an expired pause cleared by a call that then allows
C6_Witness ==
    /\ GateCalledWhilePaused
    /\ probe.at >= probe.before.pauseUntil[1]
    /\ probe.allowed
    /\ ~isPaused
    /\ pauseUntil = null

\* C8: called while not paused, below the position cap, with a negative
\* daily P&L at or above the loss ceiling, canOpenPosition denies, sets
\* isPaused and pauseUntil = now + pauseDuration and emits one risk alert;
\* a call made while the pause is running emits none.
C8_DailyLossPausesWithOneAlert ==
    /\ ( /\ probe.gateCalled
         /\ ~probe.before.isPaused
         /\ Len(probe.before.openPositions) < maxOpenPositions
         /\ LossAtCeiling(probe.before) )
       => /\ ~probe.allowed
          /\ probe.isPaused
          /\ probe.pauseUntil = Some(probe.at + pauseDuration)
          /\ probe.pauseUntil[1] > probe.at
          /\ probe.alerts = 1
    /\ (GateCalledWhilePaused /\ probe.at < probe.before.pauseUntil[1])
       => probe.alerts = 0

\* the loss ratio is exactly the ceiling and the call raised the one alert
C8_Witness ==
    /\ probe.gateCalled
    /\ ~probe.before.isPaused
    /\ (0 - probe.before.dailyPnlSol) * 100 = maxDailyLoss * initialCapital
    /\ probe.alerts = 1
    /\ riskAlerts = 1
    /\ isPaused

\* C9: the size returned by calculatePositionSize lies in
\* [0.003, 0.15 x deployable] for every ledger the gate accepts.
C9_SizeWithinDustAndCap ==
    probe.order # null
    => /\ probe.order[1].amountSol >= minPositionSize
       /\ probe.order[1].amountSol * 100
            <= maxSizePercent * (probe.before.availableCapitalSol - reserveAmount)

\* the reference formula of C10, by the opportunity's confidence tier
C10_Reference(confidence, state) ==
    LET deployable == Max(0, state.availableCapitalSol - reserveAmount)
        tier == IF confidence = "high" THEN positionSizeHigh
                ELSE IF confidence = "medium" THEN positionSizeMedium
                ELSE positionSizeLow
        base == (deployable * tier) \div 1000
        cut == IF state.dailyPnlSol < 0
               THEN (base * Max(initialCapital \div 2,
                                initialCapital + state.dailyPnlSol))
                      \div initialCapital
               ELSE base
        grown == IF /\ state.dailyPnlSol > 0
                    /\ state.dailyWinCount > 2
                    /\ state.dailyWinCount * 10 > 6 * state.dailyTradeCount
                 THEN (cut * 11) \div 10
                 ELSE cut
    IN Min((deployable * maxSizePercent) \div 100, Max(minPositionSize, grown))

\* C10: the size of an order equals the reference formula: deployable x the
\* percentage of the opportunity's tier (high 6%, medium 4%, low 2.5%),
\* reduced after losses, grown after wins, then floored and capped.
C10_SizeMatchesReference ==
    probe.order # null
    => probe.order[1].amountSol = C10_Reference(probe.confidence, probe.before)

----------------------------------------------------------------------------
(* Claims about the engine (Spec) *)

(* C1: in every reachable ledger state availableCapital equals totalCapital
   minus the sum over the open positions of entryAmountSol x
   remainingPercent / 100 (up to the rounding of one unit). *)
C1_AvailableMatchesCommitted ==
    Abs(availableCapitalSol
        - (totalCapitalSol - committedSol(pos, openPositions))) <= 1

(* C2: the effects of closePosition are applied at most once per position:
   at most one full-close sell is issued for it and at most one trade
   record is saved for it, under every interleaving of the two loops. *)
C2_ClosedAtMostOnce ==
    \A id \in DOMAIN pos : sellLog[id].closes <= 1 /\ savedTrades[id] <= 1

ledgerCounters ==
    <<openPositions, dailyPnlSol, dailyTradeCount, dailyWinCount,
      dailyLossCount>>

FullCloseSellFailed ==
    \/ \E f \in DOMAIN fast :
         /\ fast[f].pc = "closeSell"
         /\ fast'[f].pc = "notifyClose"
         /\ ~fast'[f].result[1].success
    \/ \E t \in DOMAIN slow :
         /\ slow[t].pc = "closeSell"
         /\ slow'[t].pc = "notifyClose"
         /\ ~slow'[t].result[1].success

(* C3: when the sell of a full close fails, the close is aborted: the
   position keeps its status and remainingPercent, stays in the open set,
   and no P&L, trade count or win/loss counter changes. *)
C3_FailedSellAbortsClose ==
    [][FullCloseSellFailed => pos' = pos /\ ledgerCounters' = ledgerCounters]_vars

(* C4: remainingPercent of every position is in [0, 100] in every reachable
   state, also with a partial sell of the slow loop and a full close of the
   fast loop of the same position in flight together. *)
C4_RemainingWithinRange ==
    \A id \in DOMAIN pos :
        pos[id].remainingPercent >= 0 /\ pos[id].remainingPercent <= 100

----------------------------------------------------------------------------
(* Claims about the pause and the buy pipeline (SpecPause) *)

PauseActive == isPaused /\ PauseRunning(State, now)

(* C7: no position is added to the open set at a moment when the ledger has
   isPaused = true and pauseUntil in the future, under every interleaving
   of the buy pipeline with the monitor, the dip buyer and the daily
   reset. *)
C7_NoRegistrationWhilePaused ==
    [][Len(openPositions') > Len(openPositions) => ~PauseActive]_vars

(* a position was registered in this run, the pause was entered later, and
   the queue pipeline then met the running pause at its gate *)
C7_Witness ==
    /\ Len(pos) > 1
    /\ PauseActive
    /\ buy["queue"].pausedAtGate

----------------------------------------------------------------------------
(* Claims about the rules of the fast loop (SpecFast, SpecDead) *)

(* a tick resumes from its price fetch and handles position 1 *)
FastHandles(f) ==
    /\ fast[f].pc = "prices"
    /\ fast'[f].pc # "prices"
    /\ fast[f].open = <<1>>
    /\ pos[1].status # "closed"

FastClosing(f, reason) ==
    fast'[f].pc = "closeSell" /\ fast'[f].reason = reason

(* the tick obtained a price: it leaves no dead timer and starts no close
   for dead volume *)
FastGotPrice(f) ==
    /\ FastHandles(f)
    /\ 1 \notin DOMAIN deadVolumeTimers'
    /\ ~FastClosing(f, "dead_volume")

FastNoPrice(f) == FastHandles(f) /\ ~FastGotPrice(f)

(* the dead period the tick measures *)
deadPeriod(f) ==
    IF 1 \in DOMAIN deadVolumeTimers THEN fast[f].at - deadVolumeTimers[1]
    ELSE 0

(* closePosition, once started by a tick, closes with the reason given *)
FastCloseCompletes ==
    \A f \in DOMAIN fast :
        fast[f].pc = "closeSell" /\ fast'[f].pc = "notifyClose"
            => /\ pos'[1].status = "closed"
               /\ pos'[1].closeReason = fast[f].reason

(* C15: a fast tick that obtains a price at which the P&L of an open
   position is at or below -12% closes it with reason stop_loss, whatever
   its age, a runner as well as a scalp. *)
C15_HardStopAlsoForRunner ==
    [][\A f \in DOMAIN fast :
          FastGotPrice(f) /\ pos'[1].pnlPercent <= -12
              => FastClosing(f, "stop_loss")]_vars

(* C16: a fast tick that obtains a price at which the P&L of a position is
   at or below maxTrailingLoss does not leave it open, a runner as well as
   a scalp. *)
C16_CeilingAlsoForRunner ==
    [][\A f \in DOMAIN fast :
          FastGotPrice(f) /\ pos'[1].pnlPercent <= maxTrailingLoss
              => fast'[f].pc = "closeSell"]_vars

(* C17: a fast tick that obtains a price for a position that is no runner,
   is under 30 s old and is at a P&L of -4% or less closes it in that tick
   with reason stop_loss. *)
C17_QuickCutCloses ==
    [][/\ \A f \in DOMAIN fast :
            /\ FastGotPrice(f)
            /\ ~pos[1].isRunner
            /\ fast[f].at - pos[1].entryTime < 30000
            /\ pos'[1].pnlPercent <= -4
            => FastClosing(f, "stop_loss")
       /\ FastCloseCompletes]_vars

C17_Witness ==
    /\ pos[1].status = "closed"
    /\ pos[1].closeReason = "stop_loss"
    /\ pos[1].pnlPercent = -4
    /\ ~pos[1].isRunner

(* C19: a fast tick with no price closes a position at a P&L above 0 once
   it has been dead for over 15 s, one at -10% or less once over 3 min, one
   between -10% and 0 not before 5 min and once over 5 min; each of these
   closes has reason dead_volume. *)
C19_DeadVolumeTable ==
    [][/\ \A f \in DOMAIN fast :
            FastNoPrice(f) =>
              LET pnl == pos[1].pnlPercent
                  dead == deadPeriod(f)
                  closes == fast'[f].pc = "closeSell"
              IN /\ closes => FastClosing(f, "dead_volume")
                 /\ pnl > 0 /\ dead > 15000 => closes
                 /\ pnl <= -10 /\ dead > 180000 => closes
                 /\ pnl < 0 /\ pnl > -10 /\ dead <= 300000 => ~closes
                 /\ pnl < 0 /\ pnl > -10 /\ dead > 300000 => closes
       /\ FastCloseCompletes]_vars

C19_Witness ==
    /\ pos[1].status = "closed"
    /\ pos[1].closeReason = "dead_volume"
    /\ pos[1].pnlPercent = -5

(* C18: a position no fast tick obtains a price for is closed in the end:
   the first tick that finds it dead for over 7 minutes closes it with
   reason dead_volume at any P&L, and the close goes through when the sell
   fails. *)
C18_DeadPositionClosed ==
    /\ [][/\ \A f \in DOMAIN fast :
              FastNoPrice(f) /\ deadPeriod(f) > 420000
                  => FastClosing(f, "dead_volume")
         /\ FastCloseCompletes]_vars
    /\ <>(pos[1].status = "closed")

C18_Witness ==
    /\ pos[1].status = "closed"
    /\ pos[1].closeReason = "dead_volume"
    /\ pos[1].pnlPercent = 0
    /\ \E f \in DOMAIN fast :
         fast[f].pc = "notifyClose" /\ ~fast[f].result[1].success

----------------------------------------------------------------------------
(* Claims about the take-profit ladder of the slow loop (SpecLadder) *)

(* C13: partialSell is called at most once for each trigger of a ladder,
   whatever slow ticks run and however they overlap. *)
C13_NoTriggerFiresTwice ==
    \A id \in DOMAIN sellLog :
        \A k \in DOMAIN sellLog[id].fired : sellLog[id].fired[k] <= 1

(* C14: takeProfitStage of a position never decreases, also with two slow
   ticks inside the loop of the ladder. *)
C14_StageNeverDecreases ==
    [][\A id \in DOMAIN pos :
          pos'[id].takeProfitStage >= pos[id].takeProfitStage]_vars

----------------------------------------------------------------------------
(* Claims about the dip buyer (SpecWatch) *)

(* C11: each call of the buy callback made for an entry that reached
   buy_signal, at an instant the risk gate allows a position and none is
   open on the asset, gets an order from shouldBuy. *)
C11_SignalYieldsOrder ==
    \A i \in 1..Len(signalLog) :
        signalLog[i].allowed /\ ~signalLog[i].owned
            => signalLog[i].order # null

signalsOf(m) == Cardinality({i \in 1..Len(signalLog) : signalLog[i].mint = m})

(* a price that leaves a watching entry 5% or more, and less than 35%,
   under its high moves it to waiting_rebound *)
DipMovesToWaiting ==
    \A m \in DOMAIN watched :
        /\ watched[m].state = "watching"
        /\ watched'[m] # watched[m]
        /\ dipReached(watched'[m], 5)
        /\ ~dipReached(watched'[m], 35)
        => watched'[m].state = "waiting_rebound"

(* buy_signal is entered by a tick that resumes from its confirmation
   fetch, with the callback called in the same step *)
SignalFromConfirmation ==
    \A m \in DOMAIN watched :
        watched'[m].state = "buy_signal" /\ watched[m].state # "buy_signal"
        => /\ \E d \in DOMAIN dip :
                dip[d].pc = "confirm" /\ dip[d].mint = m
           /\ signalLog' # signalLog

SignalledOnce ==
    \A m \in DOMAIN watched :
        /\ signalsOf(m) <= 1
        /\ watched[m].state = "buy_signal" => signalsOf(m) = 1

(* C12: a drop of 5% or more and under 35% from the high moves an entry
   from watching to waiting_rebound, a rebound that the confirmation holds
   moves it to buy_signal, and the buy callback is called exactly once for
   the entry, also when ticks of the watchlist overlap. *)
C12_OneCallbackPerEntry ==
    /\ [][DipMovesToWaiting /\ SignalFromConfirmation]_vars
    /\ []SignalledOnce

----------------------------------------------------------------------------
(* Claims about the admission to the watchlist (SpecAdmit) *)

WatchlistWithinSize == Len(watchlist) <= 20

ReferencePriceKnown ==
    \A i \in 1..Len(watchlist) : watched[watchlist[i]].highestPrice > 0

(* a call of addToWatchlist that returned without admitting its token left
   the watchlist as it found it *)
RefusalLeavesWatchlist ==
    add.pc = "idle" /\ add.calls > 0 /\ ~add.admitted
        => watchlist = add.before

(* C20: the watchlist holds at most 20 entries, each admitted at a
   reference price above 0, and a call of addToWatchlist that does not
   admit its token leaves the watchlist unchanged. *)
C20_EvictsOnlyToAdmit ==
    WatchlistWithinSize /\ ReferencePriceKnown /\ RefusalLeavesWatchlist

----------------------------------------------------------------------------
(* Claims about the expiry of the watchlist (SpecWatchFair) *)

tooOld(k) == now - watched[k].addedAt > maxWatchDuration

(* the keys the tick d goes over in this step: those after the entry it was
   at, up to the entry it fetches a price for next *)
dipVisited(d) ==
    { k \in {watchlist[i] : i \in 1..Len(watchlist)} :
        /\ k > (IF dip[d].pc = "idle" THEN 0 ELSE dip[d].mint)
        /\ dip'[d].pc = "price" => k <= dip'[d].mint }

(* a tick that goes on in its loop removes, as expired, each entry older
   than maxWatchDuration it comes to, and fetches no price for it *)
ExpiredAtVisit ==
    \A d \in DOMAIN dip :
        dip'[d] # dip[d] /\ dip'[d].pc \in {"price", "done"}
        => \A k \in dipVisited(d) :
              tooOld(k) => /\ ~inWatchlist(watchlist', k)
                           /\ watched'[k].state = "expired"

(* C21: every entry eventually leaves the watchlist: the first tick that
   comes to an entry older than maxWatchDuration removes it as expired,
   whatever its state and whatever the price fetch gives, so that the
   watchlist is empty in the end. *)
C21_EveryEntryLeaves ==
    /\ [][ExpiredAtVisit]_vars
    /\ <>[](watchlist = <<>>)

(* an entry that had seen its dip, expired while waiting for the rebound *)
C21_Witness ==
    \E m \in DOMAIN watched :
        /\ watched[m].state = "expired"
        /\ watched[m].lowestSinceHigh <= 95
        /\ ~inWatchlist(watchlist, m)

----------------------------------------------------------------------------
(* Claims about the queue processor (SpecQueue) *)

procInFlight == {k \in DOMAIN proc : proc[k].pc # "idle"}

(* at most one processToken is in flight, and isProcessing says so *)
OneInFlight ==
    /\ Cardinality(procInFlight) <= 1
    /\ isProcessing <=> procInFlight # {}

(* the token a callback takes is the head of the queue *)
TakenFromHead ==
    taken' # taken
        => /\ tokenQueue # <<>>
           /\ taken' = Append(taken, Head(tokenQueue))
           /\ tokenQueue' = Tail(tokenQueue)

(* the tokens taken and then those waiting are in the order they were
   queued in, each of them there once *)
InQueuedOrder ==
    LET all == taken \o tokenQueue
    IN \A i \in 1..(Len(all) - 1) : all[i].seq < all[i + 1].seq

(* a mint is queued only when seenTokens does not hold it *)
QueuedWhenUnseen ==
    Len(tokenQueue') > Len(tokenQueue)
        => /\ ~hasSeen(seenTokens, tokenQueue'[Len(tokenQueue')].mintAddress)
           /\ hasSeen(seenTokens', tokenQueue'[Len(tokenQueue')].mintAddress)

(* C22: opportunities are processed one at a time: no two processToken
   executions are in flight at once, tokens are taken from the queue in
   FIFO order, each entry of the queue is processed at most once, and a
   mint is queued only while seenTokens does not hold it. *)
C22_OneAtATimeInOrder ==
    /\ []OneInFlight
    /\ []InQueuedOrder
    /\ [][TakenFromHead /\ QueuedWhenUnseen]_vars

(* a buy of the pipeline is at its executor while a token waits *)
C22_Witness ==
    /\ isProcessing
    /\ tokenQueue # <<>>
    /\ \E k \in DOMAIN proc : proc[k].pc = "buy"
    /\ buy["queue"].pc = "exec"

(* C22 as stated: each token, that is each mint, is processed at most
   once *)
C22_EachMintOnce ==
    Cardinality({taken[i].mintAddress : i \in 1..Len(taken)}) = Len(taken)

----------------------------------------------------------------------------
(* Claims about shouldBuy (SpecRisk) *)

(* the ledger of the last call held an open position on its asset *)
probeOwned ==
    \E i \in 1..Len(probe.before.openPositions) :
        pos[probe.before.openPositions[i]].mintAddress = probe.mint

probeRefused ==
    \/ probe.confidence \in {"ignore", "watch"}
    \/ ~canOpenPosition(probe.before, probe.at).allowed
    \/ probeOwned

(* C23: shouldBuy returns no order when the confidence is ignore or watch,
   when canOpenPosition denies, or when a position on the same asset is
   open; otherwise it returns an order on the asset whose amount is the
   position size and whose priority is high exactly when the score is 55
   or more, and normal otherwise. *)
C23_OrderUnlessRefused ==
    probe.op = "shouldBuy"
    => IF probeRefused THEN probe.order = null
       ELSE /\ probe.order # null
            /\ probe.order[1].mintAddress = probe.mint
            /\ probe.order[1].amountSol =
                  calculatePositionSize(
                      [score |-> probe.score, confidence |-> probe.confidence],
                      [probe.before EXCEPT !.isPaused = probe.isPaused,
                                           !.pauseUntil = probe.pauseUntil])
            /\ probe.order[1].priority = "high" <=> probe.score >= 55
            /\ probe.order[1].priority \in {"high", "normal"}

(* an order of high priority at the score 55 *)
C23_Witness ==
    /\ probe.op = "shouldBuy"
    /\ probe.score = 55
    /\ probe.order # null
    /\ probe.order[1].priority = "high"

----------------------------------------------------------------------------
(* Claims about a buy that fails (SpecQueue) *)

(* the executor is called only with a pre-buy price that is there and has
   not dropped more than 8% since the detection *)
ExecutorAfterPreBuyCheck ==
    \A src \in Sources :
        buy[src].pc = "exec"
        => /\ buy[src].preBuyPrice > 0
           /\ buy[src].analysis.priceSol > 0
               => (buy[src].preBuyPrice - buy[src].analysis.priceSol) * 100
                     >= (0 - 8) * buy[src].analysis.priceSol

(* executeDirectBuy returns from its pre-buy check or from a failed
   executeBuy *)
buyFailed(src) ==
    buy[src].pc \in {"prebuy", "exec"} /\ buy'[src].pc = "idle"

FailedBuyChangesNothing ==
    \A src \in Sources :
        buyFailed(src)
        => /\ pos' = pos
           /\ UNCHANGED <<availableCapitalSol, openPositions, dailyPnlSol,
                          dailyTradeCount, dailyWinCount, dailyLossCount>>

(* a step of a buy takes the amount of the order from availableCapital
   exactly when it registers the position *)
PaidWhenRegistered ==
    \A src \in Sources :
        buy'[src] # buy[src]
        => /\ Len(pos') > Len(pos)
               <=> /\ buy[src].pc = "exec"
                   /\ availableCapitalSol' =
                         availableCapitalSol - buy[src].order[1].amountSol
           /\ Len(pos') > Len(pos)
               => /\ openPositions' = Append(openPositions, Len(pos'))
                  /\ pos'[Len(pos')].entryAmountSol = buy[src].order[1].amountSol
                  /\ pos'[Len(pos')].status = "open"
           /\ Len(pos') = Len(pos)
               => availableCapitalSol' = availableCapitalSol

(* C26: when a buy fails (the executor reports no success, or the pre-buy
   price is missing or more than 8% under the price at detection) no
   position is created and availableCapital, the open set and the daily
   counters are unchanged; availableCapital is decremented by the amount of
   the order exactly when a position is registered. *)
C26_FailedBuyLeavesLedger ==
    /\ []ExecutorAfterPreBuyCheck
    /\ [][FailedBuyChangesNothing /\ PaidWhenRegistered]_vars

(* a buy has failed: executeDirectBuy has returned after its one order,
   and no position exists *)
C26_Witness ==
    /\ buy["queue"].n = 1
    /\ buy["queue"].pc = "idle"
    /\ pos = <<>>
    /\ availableCapitalSol = totalCapitalSol

----------------------------------------------------------------------------
(* Claims about the shutdown (SpecStop) *)

(* C24: on shutdown the timers of the fast loop, of the slow loop and of
   the watchlist loop are cancelled and the dead-data timer map is emptied;
   the timers of the queue processor, of the periodic summary, of the daily
   reset and of the discovery polling are not cancelled: they end with the
   process, which exits in the run of the handler that stopped the loops. *)
C24_LoopsCancelledThenExit ==
    ~running
    => /\ intervals = {"queue", "summary", "dailyReset", "discovery"}
       /\ deadVolumeTimers = <<>>

(* the engine was shut down with a position still open *)
C24_Witness ==
    /\ ~running
    /\ openPositions # <<>>
    /\ "fast" \notin intervals

(* C24 as stated: after the stop operations no timer is left scheduled *)
C24_NoTimerLeft ==
    ~running => intervals = {} /\ deadVolumeTimers = <<>>

(* stopMonitor and stopDipBuyer have run *)
engineStopped == intervals \cap {"fast", "slow", "watchlist"} = {}

(* C25: after stopMonitor and stopDipBuyer have run, a tick that was
   suspended at an await makes no further change: no step is taken once
   the engine is stopped, so that the ledger, the positions and the
   watchlist stay as they were and the dead-data timer map stays empty. *)
C25_NothingAfterShutdown ==
    /\ [][~engineStopped]_vars
    /\ [](engineStopped => deadVolumeTimers = <<>>)

(* the engine was stopped while a tick of the fast loop awaited its prices
   or its sell, and a tick of the watchlist its price *)
C25_Witness ==
    /\ engineStopped
    /\ \E f \in DOMAIN fast : fast[f].pc \in {"prices", "closeSell"}
    /\ \E d \in DOMAIN dip : dip[d].pc = "price"

----------------------------------------------------------------------------
(* Claims about a partial exit whose sell fails (SpecLadder) *)

(* partialSell of the tick s resumes with a sell that took nothing off the
   position *)
failedPartial(s) ==
    /\ slow[s].pc = "partialSell"
    /\ slow'[s] # slow[s]
    /\ pos'[slowPosition(s)].remainingPercent
          = pos[slowPosition(s)].remainingPercent

(* C27: when the sell of a partial exit of the profit ladder fails, the
   position keeps its remainingPercent, its status and its
   takeProfitStage, so that a later tick attempts the same trigger
   again. *)
C27_FailedPartialKeepsStage ==
    [][\A s \in DOMAIN slow :
          failedPartial(s)
          => /\ pos'[slowPosition(s)].status = pos[slowPosition(s)].status
             /\ pos'[slowPosition(s)].takeProfitStage
                   = pos[slowPosition(s)].takeProfitStage]_vars

----------------------------------------------------------------------------
(* Claims about the daily counters (Spec) *)

TradesAreWinsAndLosses == dailyTradeCount = dailyWinCount + dailyLossCount

(* the counters move together: by one trade that is one win or one loss,
   or to zero *)
CountersMoveTogether ==
    <<dailyTradeCount, dailyWinCount, dailyLossCount>>'
        # <<dailyTradeCount, dailyWinCount, dailyLossCount>>
    => \/ /\ dailyTradeCount' = dailyTradeCount + 1
          /\ \/ /\ dailyWinCount' = dailyWinCount + 1
                /\ dailyLossCount' = dailyLossCount
             \/ /\ dailyWinCount' = dailyWinCount
                /\ dailyLossCount' = dailyLossCount + 1
          /\ \E id \in DOMAIN pos :
                pos'[id].status = "closed" /\ pos'[id].remainingPercent = 0
       \/ /\ dailyTradeCount' = 0
          /\ dailyWinCount' = 0
          /\ dailyLossCount' = 0

(* C28: each full close increments dailyTradeCount and exactly one of
   dailyWinCount and dailyLossCount, and the daily reset zeroes the three
   together, so that dailyTradeCount = dailyWinCount + dailyLossCount in
   every reachable state. *)
C28_TradesAreWinsPlusLosses ==
    /\ []TradesAreWinsAndLosses
    /\ [][CountersMoveTogether]_vars

(* a day with two closes, a win and a loss *)
C28_Witness ==
    /\ dailyWinCount = 1
    /\ dailyLossCount = 1
    /\ dailyTradeCount = 2

----------------------------------------------------------------------------
(* Claims about the promotion to runner (SpecPromote) *)

promotedNow(id) == pos'[id].isRunner /\ ~pos[id].isRunner

(* the query of checkIfRunner is sent for a scalp at a P&L of 15% or more *)
QueriedAtThreshold ==
    \A s \in DOMAIN slow :
        slow'[s].pc = "runner" /\ slow[s].pc # "runner"
        => /\ ~pos'[slow'[s].list[slow'[s].n]].isRunner
           /\ pos'[slow'[s].list[slow'[s].n]].pnlPercent >= 15

(* a position becomes a runner in the step of a tick that resumes from the
   query, with an answer that has a pair and at least 3 of the 4 signals *)
PromotedOnQuorum ==
    \A id \in DOMAIN pos :
        promotedNow(id)
        => \E s \in DOMAIN slow :
              /\ slow[s].pc = "runner"
              /\ slow[s].list[slow[s].n] = id
              /\ slow'[s].query # null
              /\ LET a == slow'[s].query[1]
                 IN /\ a.ok /\ a.pair
                    /\ \E out \in 1..4 :
                          \A i \in (1..4) \ {out} :
                              \/ i = 1 /\ a.volH1 > 0 /\ 8 * a.volM5 > a.volH1
                              \/ i = 2 /\ a.buys + a.sells > 0
                                       /\ 100 * a.buys >= 55 * (a.buys + a.sells)
                              \/ i = 3 /\ a.priceChangeM5 > 0
                              \/ i = 4 /\ (IF a.marketCap # 0 THEN a.marketCap
                                           ELSE a.fdv) < 200000

(* C29: the slow loop promotes a conservative position to runner only when
   its P&L is 15% or more and at least 3 of the 4 secondary signals
   (volume acceleration, buy ratio, positive 5-minute price change, market
   cap under the ceiling) agree; a query that fails or finds no pair never
   promotes. *)
C29_PromotedOnThreeSignals ==
    [][QueriedAtThreshold /\ PromotedOnQuorum]_vars

(* a position promoted on exactly three signals, its market cap at the
   ceiling *)
C29_Witness ==
    /\ pos[1].isRunner
    /\ \E s \in DOMAIN slow :
          /\ slow[s].query # null
          /\ slow[s].query[1].marketCap = 200000
          /\ runnerSignals(slow[s].query[1]) = 3

----------------------------------------------------------------------------
(* Claims about the positions of one tick of the fast loop (SpecPair) *)

(* the fetch of the price of the position at place j of the tick f has
   answered with a price *)
priceArrived(f, j) ==
    /\ fast[f].fetched[j] # null
    /\ fast[f].fetched[j][1] # 0

(* the tick f awaits the fetch or the close of a position other than the
   one at place j, which it has not reached *)
waitsForAnother(f, j) ==
    \/ /\ fast[f].pc = "prices"
       /\ \E i \in 1..Len(fast[f].open) : i # j /\ fast[f].fetched[i] = null
    \/ /\ fast[f].pc \in {"closeSell", "notifyClose"}
       /\ fast[f].k < j

(* the position at place j of the tick f carries the price the tick got
   for it, or is closed *)
fastEvaluated(f, j) ==
    LET p == pos[fast[f].open[j]]
    IN \/ p.status = "closed"
       \/ p.pnlPercent = pnlPercentOf(fast[f].fetched[j][1], p.entryPriceSol)

(* C30: within one tick of the fast loop a position whose price has
   arrived is evaluated, and closed if a stop applies, without waiting for
   the fetch or for the close of another position: whenever the tick
   awaits the fetch or the close of another position, every position
   whose price has arrived has been evaluated. *)
C30_EvaluatedWithoutWaiting ==
    \A f \in DOMAIN fast :
        \A j \in 1..Len(fast[f].open) :
            priceArrived(f, j) /\ waitsForAnother(f, j)
            => fastEvaluated(f, j)

----------------------------------------------------------------------------
(* Claims about the dead timer of a position (SpecOutage) *)

(* the tick f resumes from its fetches in this step *)
fastResumes(f) ==
    /\ fast[f].pc = "prices"
    /\ settled(fast[f].fetched)
    /\ fast'[f].pc # "prices"

(* the tick that got a price for a position leaves it without dead timer *)
ClearedOnPrice ==
    \A f \in DOMAIN fast :
        fastResumes(f)
        => \A j \in 1..Len(fast[f].open) :
              fast[f].fetched[j][1] # 0
              => fast[f].open[j] \notin DOMAIN deadVolumeTimers'

(* a dead timer that starts shows the instant of the tick that starts it,
   and a dead timer that stays keeps its instant *)
StartedByThisRun ==
    \A id \in DOMAIN deadVolumeTimers' :
        IF id \in DOMAIN deadVolumeTimers
        THEN deadVolumeTimers'[id] = deadVolumeTimers[id]
        ELSE \E f \in DOMAIN fast :
                /\ fastResumes(f)
                /\ \E j \in 1..Len(fast[f].open) :
                      /\ fast[f].open[j] = id
                      /\ fast[f].fetched[j][1] = 0
                /\ deadVolumeTimers'[id] = fast[f].at

(* C31: a tick of the fast loop that gets a price for a position clears
   its dead timer, so that the timer of a position always shows the first
   tick of the current run of ticks without a price: it starts at the
   instant of the tick that found no price and no timer, and does not move
   while it stays. *)
C31_DeadTimerOfCurrentRun == [][ClearedOnPrice /\ StartedByThisRun]_vars

(* an outage is under way, and the tick has a price for the position *)
C31_Witness ==
    \E f \in DOMAIN fast :
        /\ fast[f].pc = "prices"
        /\ settled(fast[f].fetched)
        /\ fast[f].fetched[1][1] # 0
        /\ 1 \in DOMAIN deadVolumeTimers
        /\ deadVolumeTimers[1] < fast[f].at

----------------------------------------------------------------------------
(* Claims about the trailing bands (SpecTrail) *)

trailsOf(lvls) == { lvls[i].trailPercent : i \in DOMAIN lvls }

(* the bands are taken from the tables, the band of the runner is the
   wider one, and neither band is wider than for a lower peak *)
trailsInOrder(call) ==
    /\ call.scalp \in trailsOf(scalpTrailingLevels)
    /\ call.runner \in trailsOf(runnerTrailingLevels)
    /\ call.runner > call.scalp
    /\ call.before # null /\ call.before[1].pnl <= call.pnl
       => /\ call.scalp <= call.before[1].scalp
          /\ call.runner <= call.before[1].runner

(* C32: the width of the trailing band is a step function of the peak P&L
   that never grows with it, in both profiles, and for every peak P&L the
   band of getRunnerTrail is strictly wider than the band of
   getScalpTrail. *)
C32_BandsNarrowRunnerWider ==
    probe.op = "getTrail" => trailsInOrder(probe)

(* two calls, the second for a higher peak and with narrower bands *)
C32_Witness ==
    /\ probe.op = "getTrail"
    /\ probe.before # null
    /\ probe.before[1].pnl < probe.pnl
    /\ probe.scalp < probe.before[1].scalp
    /\ probe.runner < probe.before[1].runner

----------------------------------------------------------------------------
(* Claims about the realized P&L of a position (SpecLadder) *)

(* the position bought before the first step is closed and no sell of it
   is awaited *)
closedOut ==
    /\ pos[1].status = "closed"
    /\ ~SellInFlight

(* the SOL received from all the sells of the position less the SOL it
   was bought for: the wallet held totalCapitalSol before the buy *)
realizedSol == wallet - totalCapitalSol

(* C33: the realized P&L is conserved: once a position is closed, after any
   number of partial exits, the P&L added to dailyPnlSol for it is the SOL
   received from all its sells less its entryAmountSol, which is also what
   availableCapitalSol gained over the starting capital; the amounts are
   whole units of 0.0001 SOL, so that each partial exit may round its
   share of the cost by less than one unit. *)
C33_RealizedPnlConserved ==
    closedOut
    => /\ availableCapitalSol - totalCapitalSol = realizedSol
       /\ dailyPnlSol - realizedSol <= sellLog[1].partials
       /\ realizedSol - dailyPnlSol <= sellLog[1].partials

----------------------------------------------------------------------------
(* Claims about the tokens sold of a position (SpecLadder) *)

(* no trigger of a ladder was fired twice and the position was not closed
   twice: the sells of the position are those of ticks that follow one
   another *)
soldInTurn(id) ==
    /\ sellLog[id].closes <= 1
    /\ \A i \in DOMAIN sellLog[id].fired : sellLog[id].fired[i] <= 1

(* C34: over the lifetime of a position the tokens passed to executeSell by
   all its partial exits and its close are at most the tokenAmount it was
   bought with.  Stated for paper trading, where every sell succeeds, and
   for sells that follow one another, so that no failed or repeated sell
   is counted. *)
C34_SoldAtMostBought ==
    \A id \in DOMAIN pos :
        paperTrading /\ soldInTurn(id)
        => sellLog[id].tokens <= pos[id].tokenAmount

----------------------------------------------------------------------------
(* Claims about the ledger under concurrent buys and closes (SpecCrowd) *)

(* C35: in every reachable state the open set holds at most
   maxOpenPositions positions, however the queue pipeline, the buy
   callback of the dip buyer and the monitor interleave. *)
C35_AtMostMaxOpenPositions == Len(openPositions) <= maxOpenPositions

(* the queue pipeline has just registered the position that fills the
   open set *)
C35_Witness ==
    /\ Len(openPositions) = maxOpenPositions
    /\ buy["queue"].pc = "notifyBuy"

(* C36: in every reachable state no two positions of the open set are of
   the same mint, although the check of shouldBuy and the registration
   are separated by the awaits of the price and of the executor. *)
C36_OneOpenPositionPerMint ==
    \A i, j \in 1..Len(openPositions) :
        pos[openPositions[i]].mintAddress = pos[openPositions[j]].mintAddress
        => i = j

(* a buy is between its check and its registration, for a mint reported
   again after the close of the position that held it *)
C36_Witness ==
    /\ buy["queue"].pc = "exec"
    /\ pos[1].status = "closed"
    /\ buy["queue"].order[1].mintAddress = pos[1].mintAddress

(* the buy is registered for no more than the deployable capital of the
   moment *)
PaidFromDeployable ==
    Len(openPositions') > Len(openPositions)
    => availableCapitalSol - availableCapitalSol'
         <= getDeployableCapital(State)

(* C39: in paper trading, from a ledger whose availableCapitalSol is at
   least the reserve, availableCapitalSol never drops below the reserve:
   every buy that is registered commits at most the deployable capital
   available when the position is registered. *)
C39_ReserveKept ==
    /\ [](paperTrading => availableCapitalSol >= reserveAmount)
    /\ [][paperTrading => PaidFromDeployable]_vars

(* a position was registered from the least capital that the gate lets
   through, with no close that added to it *)
C39_Witness ==
    /\ paperTrading
    /\ buy["queue"].pc = "notifyBuy"
    /\ availableCapitalSol < reserveAmount + minDeployable
    /\ pos[1].status # "closed"

----------------------------------------------------------------------------
(* Claims about the length of the pause (SpecPause) *)

(* the daily-loss rule has entered the pause, at an instant t >= 0, and
   t + pauseDuration has not come *)
withinPauseDuration == riskAlerts > 0 /\ now < pauseDuration

(* a position is added to the open set in this step *)
positionOpened == Len(openPositions') > Len(openPositions)

(* C38 as stated: once the daily-loss rule has entered the pause at t, no
   position is opened before t + pauseDuration, whatever the daily reset
   does in between. *)
C38_NoBuyWithinPauseDuration ==
    [][withinPauseDuration => ~positionOpened]_vars

(* C38: once the daily-loss rule has entered the pause at t, a position
   is opened before t + pauseDuration only after the daily reset has
   cleared the pause: the ledger then shows no pause and no expiry. *)
C38_NoBuyUntilPauseCleared ==
    [][withinPauseDuration /\ positionOpened
       => ~isPaused /\ pauseUntil = null]_vars

(* the pause was entered, the counters were reset, and the queue pipeline
   has registered a position before the pause would have expired *)
C38_Witness ==
    /\ withinPauseDuration
    /\ buy["queue"].pc = "notifyBuy"
    /\ ~isPaused
    /\ dailyPnlSol = 0

----------------------------------------------------------------------------
(* Claims about the dip before a buy signal (SpecRebound) *)

(* the retracement of the entry of mint m is at least minDipPercent *)
realDip(m) ==
    (watched[m].highestPrice - watched[m].lowestSinceHigh) * 100
        >= minDipPercent * watched[m].highestPrice

(* C37: a buy signal follows a real dip: when the buy callback is called
   for an entry of the watchlist, the retracement of the entry,
   (highestPrice - lowestSinceHigh) / highestPrice, is at least
   minDipPercent, also when a new high was set while the entry was in
   waiting_rebound. *)
C37_SignalAfterRealDip ==
    [][Len(signalLog') > Len(signalLog)
       => realDip(signalLog'[Len(signalLog')].mint)]_vars

----------------------------------------------------------------------------
(* Claims about the progress of the queue processor (SpecQueueFair) *)

inQueue(mint) ==
    \E i \in 1..Len(tokenQueue) : tokenQueue[i].mintAddress = mint

(* C40: the queue never deadlocks: isProcessing is released after every
   token, also when its processing throws, so that with an interval that
   keeps firing and collaborators that return every token of the queue is
   taken from it and processed. *)
C40_QueueDrains ==
    /\ isProcessing ~> ~isProcessing
    /\ \A mint \in QueueMints : inQueue(mint) ~> ~inQueue(mint)
    /\ <>[](tokenQueue = <<>> /\ ~isProcessing)

(* a token was processed to its end, the flag is free and the next token
   waits in the queue *)
C40_Witness ==
    /\ ~isProcessing
    /\ tokenQueue # <<>>
    /\ Len(taken) \notin SeenSizes
    /\ \A k \in DOMAIN proc : proc[k].pc = "idle"

====
